---- MODULE Spec2Model ----
(***************************************************************************)
(* The caching layer of the isucogram web application (package main):      *)
(* the relational store (users, posts, comments), the memcached key/value  *)
(* namespace (user:<id>, comments:<postId>, indexPosts) and the request    *)
(* handlers that read and write both.                                      *)
(*                                                                         *)
(* A handler is one action.  Every cache operation of the program runs     *)
(* under its domain mutex from its first cache or store access to its      *)
(* last, so requests that do not overlap are exactly sequences of these    *)
(* actions.  The store's tables are sets of rows; a row carries the        *)
(* columns the caching layer reads (post bodies, comment texts and image   *)
(* bytes are payload that no branch of the code looks at).                 *)
(***************************************************************************)
EXTENDS Integers, Sequences, FiniteSets, TLC

VARIABLES
    dbUsers,      \* table users: id -> row
    dbPosts,      \* table posts: set of rows
    dbComments,   \* table comments: set of rows
    autoUser,     \* AUTO_INCREMENT of users
    autoPost,     \* AUTO_INCREMENT of posts
    autoComment,  \* AUTO_INCREMENT of comments
    now,          \* the clock read by time.Now() and CURRENT_TIMESTAMP
    memcache,     \* memcacheClient: key -> serialized value
    goBan,        \* user ids handed to "go banUserOnCache(uid)", not yet run
    last,         \* the call that ran last, with what it returned
    threads       \* the requests in progress: where each is, what it holds

vars == <<dbUsers, dbPosts, dbComments, autoUser, autoPost, autoComment,
          now, memcache, goBan, last, threads>>

(***************************************************************************)
(* Bounds of the model.                                                    *)
(***************************************************************************)
MaxUid == 4       \* users.id never exceeds this
MaxPid == 3       \* posts.id never exceeds this
MaxCid == 4       \* comments.id never exceeds this
MaxTime == 1      \* the clock stops advancing here
MaxProcs == 2     \* requests served at the same time

(***************************************************************************)
(* Program constants, scaled down to the bounds above.                     *)
(***************************************************************************)
postsPerPage == 2     \* 20 in the source
SeedUsers == 3        \* /initialize keeps users.id <= 1000
SeedPosts == 2        \* /initialize keeps posts.id <= 10000
SeedComments == 1     \* /initialize keeps comments.id <= 100000
DelFlgEvery == 3      \* /initialize sets del_flg = 1 where id % 50 = 0

Uids == 1..MaxUid
Pids == 1..MaxPid
Procs == 1..MaxProcs

Min(a, b) == IF a < b THEN a ELSE b

(***************************************************************************)
(* Rows and structs.                                                       *)
(***************************************************************************)
User(id, name, hash, auth, del, at) ==
    [ID |-> id, AccountName |-> name, Passhash |-> hash,
     Authority |-> auth, DelFlg |-> del, CreatedAt |-> at]

\* User{}: the zero value
NoUser == User(0, "", "", 0, 0, 0)

isLogin(u) == u.ID # 0

\* what a call that returns no data leaves in last.data
NoData == [none |-> TRUE]

\* a thread that serves no request
Idle == [op |-> "idle", pc |-> 0, held |-> {}, loc |-> NoData]

\* digest(password + ":" + digest(accountName)): injective in both
calculatePasshash(accountName, password) == <<"sha512", accountName, password>>

\* \A[0-9a-zA-Z_]{3,}\z and \A[0-9a-zA-Z_]{6,}\z on the model's alphabet
validateUser(accountName, password) ==
    Len(accountName) >= 3 /\ Len(password) >= 6

(***************************************************************************)
(* The cache backend: get, multi-get, set, delete on one flat namespace.   *)
(***************************************************************************)
getUserCacheKey(uid) == "user:" \o ToString(uid)
getIndexPostsCacheKey == "indexPosts"
getCommentsCacheKey(pid) == "comments:" \o ToString(pid)

\* encoding/json on the structs of the program: every field is exported and
\* untagged, so a value is serialized whole and read back whole
Marshal(v) == [json |-> v]
Unmarshal(item) == item.json

\* a payload json.Unmarshal rejects, and the test it makes
Garbage == [garbage |-> TRUE]
Valid(item) == "json" \in DOMAIN item

\* the empty mapping
NoItems == [k \in {} |-> Garbage]

Has(mc, key) == key \in DOMAIN mc
GetMulti(mc, keys) == [k \in keys \cap DOMAIN mc |-> mc[k]]
Set(mc, key, value) ==
    [k \in DOMAIN mc \cup {key} |-> IF k = key THEN value ELSE mc[k]]
Delete(mc, key) == [k \in DOMAIN mc \ {key} |-> mc[k]]

(***************************************************************************)
(* UserCache                                                               *)
(***************************************************************************)
\* the loop of getUsers and resetUserCache that caches each row on its own
RECURSIVE SetUsers(_, _)
SetUsers(mc, rows) ==
    IF rows = {} THEN mc
    ELSE LET u == CHOOSE r \in rows : TRUE
         IN  SetUsers(Set(mc, getUserCacheKey(u.ID), Marshal(u)), rows \ {u})

\* SELECT * FROM users WHERE id IN (missUids)
SelectUsersIn(db, missUids) == {db[i] : i \in missUids \cap DOMAIN db}

\* getUsers that forgets to write the rows it read back to the cache
getUsers_NoBackfill(mc, db, uids) ==
    LET items == GetMulti(mc, {getUserCacheKey(i) : i \in uids})
        hits == {i \in uids : getUserCacheKey(i) \in DOMAIN items}
        missUsers == SelectUsersIn(db, uids \ hits)
    IN  [users |-> [i \in hits \cup {u.ID : u \in missUsers} |->
                       IF i \in hits
                       THEN Unmarshal(items[getUserCacheKey(i)])
                       ELSE db[i]],
         mc |-> mc,
         missUids |-> uids \ hits]

\* getUsers that caches an empty record for an id the store does not hold
getUsers_CacheAbsent(mc, db, uids) ==
    LET items == GetMulti(mc, {getUserCacheKey(i) : i \in uids})
        hits == {i \in uids : getUserCacheKey(i) \in DOMAIN items}
        missUsers == SelectUsersIn(db, uids \ hits)
    IN  [users |-> [i \in hits \cup {u.ID : u \in missUsers} |->
                       IF i \in hits
                       THEN Unmarshal(items[getUserCacheKey(i)])
                       ELSE db[i]],
         mc |-> SetUsers(mc, missUsers \cup
                   {[NoUser EXCEPT !.ID = i] : i \in (uids \ hits) \ DOMAIN db}),
         missUids |-> uids \ hits]

\* getUsers that answers a failed multi-get with the empty map, without
\* asking the store
getUsersIO_GiveUp(mc, db, uids, getOk, selOk, setOk) ==
    LET items == IF getOk THEN GetMulti(mc, {getUserCacheKey(i) : i \in uids})
                 ELSE NoItems
        hits == {i \in uids : getUserCacheKey(i) \in DOMAIN items}
        missUids == IF getOk THEN uids \ hits ELSE {}
        missUsers == IF selOk THEN SelectUsersIn(db, missUids) ELSE {}
        found == hits \cup {u.ID : u \in missUsers}
    IN  IF \E i \in hits : ~Valid(items[getUserCacheKey(i)])
        THEN [panic |-> TRUE, err |-> FALSE, users |-> << >>, mc |-> mc,
              missUids |-> {}, sets |-> {}]
        ELSE [panic |-> FALSE, err |-> FALSE,
              users |-> [i \in found |->
                            IF i \in hits
                            THEN Unmarshal(items[getUserCacheKey(i)])
                            ELSE db[i]],
              mc |-> IF setOk THEN SetUsers(mc, missUsers) ELSE mc,
              missUids |-> missUids,
              sets |-> {getUserCacheKey(u.ID) : u \in missUsers}]

\* getUsers(uids) with the outcomes of its three kinds of I/O: getOk is
\* FALSE when GetMulti returns an error and no items, selOk is FALSE when
\* db.Select returns an error and no rows, setOk is FALSE when the backend
\* drops the Sets.  It returns the map, the error (always nil), whether it
\* panicked, the cache afterwards, the ids asked of the store (no query is
\* issued when there are none) and the keys handed to Set.
getUsersIO(mc, db, uids, getOk, selOk, setOk) ==
    LET items == IF getOk THEN GetMulti(mc, {getUserCacheKey(i) : i \in uids})
                 ELSE NoItems
        hits == {i \in uids : getUserCacheKey(i) \in DOMAIN items}
        missUids == uids \ hits
        missUsers == IF selOk THEN SelectUsersIn(db, missUids) ELSE {}
        found == hits \cup {u.ID : u \in missUsers}
    IN  IF \E i \in hits : ~Valid(items[getUserCacheKey(i)])
        THEN [panic |-> TRUE, err |-> FALSE, users |-> << >>, mc |-> mc,
              missUids |-> {}, sets |-> {}]
        ELSE [panic |-> FALSE, err |-> FALSE,
              users |-> [i \in found |->
                            IF i \in hits
                            THEN Unmarshal(items[getUserCacheKey(i)])
                            ELSE db[i]],
              mc |-> IF setOk THEN SetUsers(mc, missUsers) ELSE mc,
              missUids |-> missUids,
              sets |-> {getUserCacheKey(u.ID) : u \in missUsers}]

\* getUsers(uids) with a backend and a store that answer and entries that
\* are intact: the returned map, the cache afterwards, the ids asked of the
\* store (no query is issued when there are none)
getUsers(mc, db, uids) ==
    LET items == GetMulti(mc, {getUserCacheKey(i) : i \in uids})
        hits == {i \in uids : getUserCacheKey(i) \in DOMAIN items}
        missUids == uids \ hits
        missUsers == SelectUsersIn(db, missUids)
        found == hits \cup {u.ID : u \in missUsers}
    IN  [users |-> [i \in found |->
                       IF i \in hits
                       THEN Unmarshal(items[getUserCacheKey(i)])
                       ELSE db[i]],
         mc |-> SetUsers(mc, missUsers),
         missUids |-> missUids]

\* users[uid] of a Go map: the zero value when the key is absent
UserOf(users, uid) == IF uid \in DOMAIN users THEN users[uid] ELSE NoUser

\* getSessionUser: sessionUid = 0 is a session without user_id
getSessionUser(mc, db, sessionUid) ==
    IF sessionUid = 0
    THEN [me |-> NoUser, mc |-> mc]
    ELSE LET r == getUsers(mc, db, {sessionUid})
         IN  [me |-> UserOf(r.users, sessionUid), mc |-> r.mc]

\* banUserOnCache that builds an entry when there is none
banUserOnCacheIO_Fabricate(mc, userID, getOk, setOk) ==
    LET key == getUserCacheKey(userID)
    IN  IF Has(mc, key) /\ ~Valid(mc[key])
        THEN [panic |-> TRUE, mc |-> mc, set |-> FALSE]
        ELSE [panic |-> FALSE,
              mc |-> Set(mc, key,
                         Marshal(IF Has(mc, key)
                                 THEN [Unmarshal(mc[key]) EXCEPT !.DelFlg = 1]
                                 ELSE [NoUser EXCEPT !.ID = userID, !.DelFlg = 1])),
              set |-> TRUE]

\* banUserOnCache(userID): getOk is FALSE when Get returns a transport
\* error, setOk is FALSE when the backend drops the Set
banUserOnCacheIO(mc, userID, getOk, setOk) ==
    LET key == getUserCacheKey(userID)
    IN  IF ~getOk \/ ~Has(mc, key) THEN [panic |-> FALSE, mc |-> mc, set |-> FALSE]
        ELSE IF ~Valid(mc[key]) THEN [panic |-> TRUE, mc |-> mc, set |-> FALSE]
        ELSE [panic |-> FALSE,
              mc |-> IF setOk
                     THEN Set(mc, key, Marshal([Unmarshal(mc[key]) EXCEPT !.DelFlg = 1]))
                     ELSE mc,
              set |-> TRUE]

\* banUserOnCache(userID) with a backend that answers and an intact entry
banUserOnCache(mc, userID) ==
    LET key == getUserCacheKey(userID)
    IN  IF ~Has(mc, key) THEN mc
        ELSE Set(mc, key, Marshal([Unmarshal(mc[key]) EXCEPT !.DelFlg = 1]))

\* resetUserCache: SELECT * FROM users, one Set per row
resetUserCache(mc, db) == SetUsers(mc, {db[i] : i \in DOMAIN db})

(***************************************************************************)
(* PostIndexCache                                                          *)
(***************************************************************************)
\* a Post as the index query fills it: the derived fields keep their zero
\* values until makePosts sets them
Post(row) ==
    [ID |-> row.ID, UserID |-> row.UserID, Mime |-> row.Mime,
     CreatedAt |-> row.CreatedAt, CommentCount |-> 0, Comments |-> << >>,
     User |-> NoUser]

\* ORDER BY created_at DESC: rows of one second come in the order of a
\* backward index scan, the larger id first
Newer(a, b) ==
    a.CreatedAt > b.CreatedAt \/ (a.CreatedAt = b.CreatedAt /\ a.ID > b.ID)

RECURSIVE OrderByCreatedAtDesc(_)
OrderByCreatedAtDesc(rows) ==
    IF rows = {} THEN << >>
    ELSE LET r == CHOOSE x \in rows : \A y \in rows \ {x} : Newer(x, y)
         IN  <<r>> \o OrderByCreatedAtDesc(rows \ {r})

\* ORDER BY created_at: rows of one second come in index order, by id
RECURSIVE OrderByCreatedAt(_)
OrderByCreatedAt(rows) ==
    IF rows = {} THEN << >>
    ELSE LET r == CHOOSE x \in rows : \A y \in rows \ {x} : Newer(y, x)
         IN  <<r>> \o OrderByCreatedAt(rows \ {r})

Limit(seq, n) == SubSeq(seq, 1, Min(n, Len(seq)))

MapPost(seq) == [i \in 1..Len(seq) |-> Post(seq[i])]

\* SELECT id FROM users WHERE del_flg = 0
VisibleUids(db) == {i \in DOMAIN db : db[i].DelFlg = 0}

\* SELECT ... FROM posts WHERE user_id IN (SELECT id FROM users WHERE
\* del_flg = 0) ORDER BY created_at DESC LIMIT postsPerPage
SelectIndexPosts(posts, db) ==
    MapPost(Limit(OrderByCreatedAtDesc({p \in posts : p.UserID \in VisibleUids(db)}),
                  postsPerPage))

\* getIndexPosts that returns the rebuilt list without caching it
getIndexPosts_NoSet(mc, posts, db) ==
    LET key == getIndexPostsCacheKey
    IN  IF Has(mc, key)
        THEN [posts |-> Unmarshal(mc[key]), mc |-> mc, queried |-> FALSE]
        ELSE [posts |-> SelectIndexPosts(posts, db), mc |-> mc, queried |-> TRUE]

\* getIndexPosts that returns the transport error of its Get
getIndexPostsIO_FailOnGet(mc, posts, db, getOk, selOk, setOk) ==
    LET key == getIndexPostsCacheKey
        sel == SelectIndexPosts(posts, db)
    IN  IF ~getOk
        THEN [panic |-> FALSE, err |-> TRUE, posts |-> << >>, mc |-> mc,
              queried |-> FALSE]
        ELSE IF Has(mc, key)
        THEN [panic |-> ~Valid(mc[key]), err |-> FALSE,
              posts |-> IF Valid(mc[key]) THEN Unmarshal(mc[key]) ELSE << >>,
              mc |-> mc, queried |-> FALSE]
        ELSE [panic |-> FALSE, err |-> ~selOk,
              posts |-> IF selOk THEN sel ELSE << >>,
              mc |-> IF selOk /\ setOk THEN Set(mc, key, Marshal(sel)) ELSE mc,
              queried |-> TRUE]

\* getIndexPosts with the outcomes of its I/O: the list, the error, whether
\* it panicked, the cache afterwards, whether the store was asked
getIndexPostsIO(mc, posts, db, getOk, selOk, setOk) ==
    LET key == getIndexPostsCacheKey
        sel == SelectIndexPosts(posts, db)
    IN  IF getOk /\ Has(mc, key)
        THEN IF Valid(mc[key])
             THEN [panic |-> FALSE, err |-> FALSE, posts |-> Unmarshal(mc[key]),
                   mc |-> mc, queried |-> FALSE]
             ELSE [panic |-> TRUE, err |-> FALSE, posts |-> << >>,
                   mc |-> mc, queried |-> FALSE]
        ELSE IF ~selOk
        THEN [panic |-> FALSE, err |-> TRUE, posts |-> << >>, mc |-> mc,
              queried |-> TRUE]
        ELSE [panic |-> FALSE, err |-> FALSE, posts |-> sel,
              mc |-> IF setOk THEN Set(mc, key, Marshal(sel)) ELSE mc,
              queried |-> TRUE]

\* getIndexPosts with a backend and a store that answer and an intact
\* entry: the list, the cache afterwards, whether the store was asked
getIndexPosts(mc, posts, db) ==
    LET key == getIndexPostsCacheKey
    IN  IF Has(mc, key)
        THEN [posts |-> Unmarshal(mc[key]), mc |-> mc, queried |-> FALSE]
        ELSE LET sel == SelectIndexPosts(posts, db)
             IN  [posts |-> sel, mc |-> Set(mc, key, Marshal(sel)), queried |-> TRUE]

(***************************************************************************)
(* CommentCache                                                            *)
(***************************************************************************)
\* a Comment as SELECT * fills it: no column maps to the User field
Comment(row) ==
    [ID |-> row.ID, PostID |-> row.PostID, UserID |-> row.UserID,
     CreatedAt |-> row.CreatedAt, User |-> NoUser]

MapComment(seq) == [i \in 1..Len(seq) |-> Comment(seq[i])]

\* SELECT * FROM comments WHERE post_id = ? ORDER BY created_at
SelectComments(comments, pid) ==
    MapComment(OrderByCreatedAt({c \in comments : c.PostID = pid}))

\* getComments that answers a damaged entry with the rows of the store
getCommentsIO_Refetch(mc, comments, pid, getOk, selOk, setOk) ==
    LET key == getCommentsCacheKey(pid)
        sel == SelectComments(comments, pid)
    IN  IF getOk /\ Has(mc, key) /\ Valid(mc[key])
        THEN [panic |-> FALSE, err |-> FALSE, comments |-> Unmarshal(mc[key]),
              mc |-> mc, queried |-> FALSE]
        ELSE IF ~selOk
        THEN [panic |-> FALSE, err |-> TRUE, comments |-> << >>, mc |-> mc,
              queried |-> TRUE]
        ELSE [panic |-> FALSE, err |-> FALSE, comments |-> sel,
              mc |-> IF setOk THEN Set(mc, key, Marshal(sel)) ELSE mc,
              queried |-> TRUE]

\* getComments(pid) with the outcomes of its I/O
getCommentsIO(mc, comments, pid, getOk, selOk, setOk) ==
    LET key == getCommentsCacheKey(pid)
        sel == SelectComments(comments, pid)
    IN  IF getOk /\ Has(mc, key)
        THEN IF Valid(mc[key])
             THEN [panic |-> FALSE, err |-> FALSE, comments |-> Unmarshal(mc[key]),
                   mc |-> mc, queried |-> FALSE]
             ELSE [panic |-> TRUE, err |-> FALSE, comments |-> << >>,
                   mc |-> mc, queried |-> FALSE]
        ELSE IF ~selOk
        THEN [panic |-> FALSE, err |-> TRUE, comments |-> << >>, mc |-> mc,
              queried |-> TRUE]
        ELSE [panic |-> FALSE, err |-> FALSE, comments |-> sel,
              mc |-> IF setOk THEN Set(mc, key, Marshal(sel)) ELSE mc,
              queried |-> TRUE]

\* getComments(pid) with a backend and a store that answer and an intact
\* entry
getComments(mc, comments, pid) ==
    LET key == getCommentsCacheKey(pid)
    IN  IF Has(mc, key)
        THEN [comments |-> Unmarshal(mc[key]), mc |-> mc, queried |-> FALSE]
        ELSE LET sel == SelectComments(comments, pid)
             IN  [comments |-> sel, mc |-> Set(mc, key, Marshal(sel)), queried |-> TRUE]

\* appendComment that builds the entry when there is none
appendCommentCache_Rebuild(mc, postID, user, cid, at) ==
    LET key == getCommentsCacheKey(postID)
        c == [ID |-> cid, PostID |-> postID, UserID |-> user.ID,
              CreatedAt |-> at, User |-> user]
    IN  Set(mc, key, Marshal(IF Has(mc, key) THEN Append(Unmarshal(mc[key]), c)
                             ELSE <<c>>))

\* appendComment that puts the new comment in front of the cached list
appendCommentCache_Prepend(mc, postID, user, cid, at) ==
    LET key == getCommentsCacheKey(postID)
        c == [ID |-> cid, PostID |-> postID, UserID |-> user.ID,
              CreatedAt |-> at, User |-> user]
    IN  IF ~Has(mc, key) THEN mc
        ELSE Set(mc, key, Marshal(<<c>> \o Unmarshal(mc[key])))

\* appendComment, after its INSERT returned id cid: the cache afterwards and
\* the error it returns, with the outcomes of its Get and its Set
\* appendComment that also drops the recent-posts blob
appendCommentIO_Invalidate(mc, postID, user, cid, at, getOk, setOk) ==
    LET key == getCommentsCacheKey(postID)
        c == [ID |-> cid, PostID |-> postID, UserID |-> user.ID,
              CreatedAt |-> at, User |-> user]
    IN  IF ~getOk \/ ~Has(mc, key) THEN [err |-> FALSE, mc |-> mc]
        ELSE IF ~Valid(mc[key]) THEN [err |-> TRUE, mc |-> mc]
        ELSE [err |-> FALSE,
              mc |-> IF setOk
                     THEN Delete(Set(mc, key,
                                     Marshal(Append(Unmarshal(mc[key]), c))),
                                 getIndexPostsCacheKey)
                     ELSE mc]

appendCommentIO(mc, postID, user, cid, at, getOk, setOk) ==
    LET key == getCommentsCacheKey(postID)
        c == [ID |-> cid, PostID |-> postID, UserID |-> user.ID,
              CreatedAt |-> at, User |-> user]
    IN  IF ~getOk \/ ~Has(mc, key) THEN [err |-> FALSE, mc |-> mc]
        ELSE IF ~Valid(mc[key]) THEN [err |-> TRUE, mc |-> mc]
        ELSE [err |-> FALSE,
              mc |-> IF setOk
                     THEN Set(mc, key, Marshal(Append(Unmarshal(mc[key]), c)))
                     ELSE mc]

\* appendComment, after its INSERT returned id cid, with a backend that
\* answers and an intact entry: the cache afterwards
appendCommentCache(mc, postID, user, cid, at) ==
    LET key == getCommentsCacheKey(postID)
        c == [ID |-> cid, PostID |-> postID, UserID |-> user.ID,
              CreatedAt |-> at, User |-> user]
    IN  IF ~Has(mc, key) THEN mc
        ELSE Set(mc, key, Marshal(Append(Unmarshal(mc[key]), c)))

\* resetCommentCache: getComments for every id of SELECT id FROM posts
RECURSIVE resetCommentLoop(_, _, _)
resetCommentLoop(mc, comments, postIDs) ==
    IF postIDs = {} THEN mc
    ELSE LET pid == CHOOSE x \in postIDs : TRUE
         IN  resetCommentLoop(getComments(mc, comments, pid).mc, comments,
                              postIDs \ {pid})

resetCommentCache(mc, posts, comments) ==
    resetCommentLoop(mc, comments, {p.ID : p \in posts})

\* resetCaches
resetCaches(mc, db, posts, comments) ==
    resetCommentCache(resetUserCache(mc, db), posts, comments)

(***************************************************************************)
(* Aggregation: makePosts                                                  *)
(***************************************************************************)
CommentsShown == 3

\* one iteration of the loop body of makePosts, up to the del_flg test
makePost(mc, db, comments, p, allComments) ==
    LET gc == getComments(mc, comments, p.ID)
        count == Len(gc.comments)
        kept == IF ~allComments /\ count > CommentsShown
                THEN SubSeq(gc.comments, 1, CommentsShown)
                ELSE gc.comments
        uids == {p.UserID} \cup {kept[i].UserID : i \in 1..Len(kept)}
        gu == getUsers(gc.mc, db, uids)
    IN  [post |-> [p EXCEPT !.CommentCount = count,
                            !.Comments = [i \in 1..Len(kept) |->
                                [kept[i] EXCEPT !.User = UserOf(gu.users, kept[i].UserID)]],
                            !.User = UserOf(gu.users, p.UserID)],
         mc |-> gu.mc]

\* the loop of makePosts without its break
RECURSIVE makePostsLoop_NoBreak(_, _, _, _, _, _, _)
makePostsLoop_NoBreak(mc, db, comments, results, allComments, posts, fetched) ==
    IF results = << >> THEN [posts |-> posts, mc |-> mc, fetched |-> fetched]
    ELSE LET one == makePost(mc, db, comments, Head(results), allComments)
             acc == IF one.post.User.DelFlg = 0 THEN Append(posts, one.post) ELSE posts
         IN  makePostsLoop_NoBreak(one.mc, db, comments, Tail(results),
                                   allComments, acc, Append(fetched, Head(results).ID))

\* the loop of makePosts: posts is the list accumulated so far, fetched the
\* ids of the candidates whose comments and users were fetched so far
RECURSIVE makePostsLoop(_, _, _, _, _, _, _)
makePostsLoop(mc, db, comments, results, allComments, posts, fetched) ==
    IF results = << >> THEN [posts |-> posts, mc |-> mc, fetched |-> fetched]
    ELSE LET one == makePost(mc, db, comments, Head(results), allComments)
             acc == IF one.post.User.DelFlg = 0 THEN Append(posts, one.post) ELSE posts
             seen == Append(fetched, Head(results).ID)
         IN  IF Len(acc) >= postsPerPage
             THEN [posts |-> acc, mc |-> one.mc, fetched |-> seen]
             ELSE makePostsLoop(one.mc, db, comments, Tail(results), allComments,
                                acc, seen)

makePosts(mc, db, comments, results, allComments) ==
    makePostsLoop(mc, db, comments, results, allComments, << >>, << >>)

(***************************************************************************)
(* dbInitialize: the five statements, in order                             *)
(***************************************************************************)
SeedDelFlg(id) == IF id % DelFlgEvery = 0 THEN 1 ELSE 0

InitializedUsers(db) ==
    [i \in {j \in DOMAIN db : j <= SeedUsers} |-> [db[i] EXCEPT !.DelFlg = SeedDelFlg(i)]]
InitializedPosts(posts) == {p \in posts : p.ID <= SeedPosts}
InitializedComments(comments) == {c \in comments : c.ID <= SeedComments}

(***************************************************************************)
(* Initial state: the seed data set in the store, the cache emptied by     *)
(* memcacheClient.DeleteAll() in init().                                   *)
(***************************************************************************)
SeedNames == <<"admin", "bob", "carl">>

\* seed user 1 is the administrator
SeedUser(id) ==
    User(id, SeedNames[id], calculatePasshash(SeedNames[id], "secret"),
         IF id = 1 THEN 1 ELSE 0, SeedDelFlg(id), 0)

\* seed post i is by seed user i (wrapping), seed comment i is on post i
SeedPost(id) ==
    [ID |-> id, UserID |-> ((id - 1) % SeedUsers) + 1, Mime |-> "image/jpeg",
     CreatedAt |-> 0]
SeedComment(id) ==
    [ID |-> id, PostID |-> ((id - 1) % SeedPosts) + 1,
     UserID |-> (id % SeedUsers) + 1, CreatedAt |-> 0]

Init ==
    /\ dbUsers = [i \in 1..SeedUsers |-> SeedUser(i)]
    /\ dbPosts = {SeedPost(i) : i \in 1..SeedPosts}
    /\ dbComments = {SeedComment(i) : i \in 1..SeedComments}
    /\ autoUser = SeedUsers + 1
    /\ autoPost = SeedPosts + 1
    /\ autoComment = SeedComments + 1
    /\ now = 0
    /\ memcache = [k \in {} |-> 0]
    /\ goBan = {}
    /\ last = [call |-> [op |-> "init"], data |-> NoData]
    /\ threads = [p \in Procs |-> Idle]


(***************************************************************************)
(* Requests.  A request's inputs: the user id its session holds (0: none), *)
(* whether its csrf_token matches, its form values, and the second the     *)
(* clock shows when it inserts.                                            *)
(***************************************************************************)
AccountNames == {"alice", "bo"}
Passwords == {"secret"}
ContentTypes == {"image/png", "text/plain"}

\* a session holds the id of a user who logged in or registered: a seed
\* user whose del_flg the seed data set clears, or any registered user
Sessions ==
    {0} \cup {i \in 1..(autoUser - 1) : i > SeedUsers \/ SeedDelFlg(i) = 0}

\* the strings of the form field uid[]: the decimal ids of the users that
\* were created, and a string that is no number
FormUids == {[str |-> ToString(i), num |-> i] : i \in 1..(autoUser - 1)}
               \cup {[str |-> "x", num |-> -1]}
BanForms == {f \in SUBSET FormUids : Cardinality(f) <= 2}

\* strconv.Atoi
Atoi(a) == IF a.num >= 0 THEN [n |-> a.num, err |-> FALSE]
           ELSE [n |-> 0, err |-> TRUE]

\* the second an insert reads: the clock may have advanced since
Clock == now..Min(now + 1, MaxTime)

\* last holds the call that ran, with its scalar results, and the data it
\* returned; a request that runs alone from its first statement to its last
\* leaves the requests in progress where they are
Ran(call, data) ==
    /\ last' = [call |-> call, data |-> data]
    /\ UNCHANGED threads

\* a call of getUsers(uids) by any of its callers
GetUsers(uids) ==
    LET r == getUsers(memcache, dbUsers, uids)
    IN  /\ memcache' = r.mc
        /\ Ran([op |-> "getUsers", uids |-> uids, missUids |-> r.missUids],
               [users |-> r.users])
        /\ UNCHANGED <<dbUsers, dbPosts, dbComments, autoUser, autoPost,
                       autoComment, now, goBan>>

\* appendUser that inserts the row and leaves the cache as it was
appendUser_NoCache(accountName, passhash, t) ==
    LET u == User(autoUser, accountName, passhash, 0, 0, t)
    IN  /\ dbUsers' = [i \in DOMAIN dbUsers \cup {u.ID} |->
                          IF i = u.ID THEN u ELSE dbUsers[i]]
        /\ autoUser' = autoUser + 1
        /\ memcache' = memcache
        /\ Ran([op |-> "appendUser", id |-> u.ID, err |-> FALSE,
                accountName |-> accountName, passhash |-> passhash], NoData)

\* appendUser(accountName, passhash) at second t
appendUser(accountName, passhash, t) ==
    LET u == User(autoUser, accountName, passhash, 0, 0, t)
    IN  /\ dbUsers' = [i \in DOMAIN dbUsers \cup {u.ID} |->
                          IF i = u.ID THEN u ELSE dbUsers[i]]
        /\ autoUser' = autoUser + 1
        /\ memcache' = Set(memcache, getUserCacheKey(u.ID), Marshal(u))
        /\ Ran([op |-> "appendUser", id |-> u.ID, err |-> FALSE,
                accountName |-> accountName, passhash |-> passhash], NoData)

\* POST /register from a session that is not logged in
PostRegister(accountName, password, t) ==
    /\ autoUser <= MaxUid
    /\ IF /\ validateUser(accountName, password)
          /\ \A i \in DOMAIN dbUsers : dbUsers[i].AccountName # accountName
       THEN /\ appendUser(accountName, calculatePasshash(accountName, password), t)
            /\ now' = t
       ELSE /\ Ran([op |-> "postRegister", status |-> "notice"], NoData)
            /\ UNCHANGED <<dbUsers, autoUser, memcache, now>>
    /\ UNCHANGED <<dbPosts, dbComments, autoPost, autoComment, goBan>>

\* UPDATE users SET del_flg = 1 WHERE id = ?, for every form value
BanInStore(db, form) ==
    [i \in DOMAIN db |->
        IF \E a \in form : a.num = i THEN [db[i] EXCEPT !.DelFlg = 1] ELSE db[i]]

\* the goroutines postAdminBanned starts
BanGoroutines(form) == {Atoi(a).n : a \in {b \in form : Atoi(b).err}}

\* POST /admin/banned
PostAdminBanned(sess, csrfOk, form) ==
    LET s == getSessionUser(memcache, dbUsers, sess)
    IN  /\ IF isLogin(s.me) /\ s.me.Authority # 0 /\ csrfOk
           THEN /\ dbUsers' = BanInStore(dbUsers, form)
                /\ goBan' = goBan \cup BanGoroutines(form)
                /\ memcache' = Delete(s.mc, getIndexPostsCacheKey)
                /\ Ran([op |-> "postAdminBanned", banned |-> TRUE,
                        hadIndex |-> Has(s.mc, getIndexPostsCacheKey)], NoData)
           ELSE /\ memcache' = s.mc
                /\ Ran([op |-> "postAdminBanned", banned |-> FALSE,
                        hadIndex |-> Has(s.mc, getIndexPostsCacheKey)], NoData)
                /\ UNCHANGED <<dbUsers, goBan>>
        /\ UNCHANGED <<dbPosts, dbComments, autoUser, autoPost, autoComment, now>>

\* a goroutine started by postAdminBanned runs banUserOnCache
BanUserOnCacheGo ==
    \E uid \in goBan :
        /\ memcache' = banUserOnCache(memcache, uid)
        /\ goBan' = goBan \ {uid}
        /\ Ran([op |-> "banUserOnCache", uid |-> uid], NoData)
        /\ UNCHANGED <<dbUsers, dbPosts, dbComments, autoUser, autoPost,
                       autoComment, now>>

\* GET /initialize: dbInitialize, then resetCaches
GetInitialize ==
    LET db == InitializedUsers(dbUsers)
        posts == InitializedPosts(dbPosts)
        comments == InitializedComments(dbComments)
    IN  /\ dbUsers' = db
        /\ dbPosts' = posts
        /\ dbComments' = comments
        /\ memcache' = resetCaches(memcache, db, posts, comments)
        /\ Ran([op |-> "initialize"], NoData)
        /\ UNCHANGED <<autoUser, autoPost, autoComment, now, goBan>>

\* a call of getComments(pid) by makePosts or resetCommentCache, for a post
\* that was created
GetComments(pid) ==
    LET r == getComments(memcache, dbComments, pid)
    IN  /\ pid < autoPost
        /\ memcache' = r.mc
        /\ Ran([op |-> "getComments", pid |-> pid, queried |-> r.queried],
               [comments |-> r.comments])
        /\ UNCHANGED <<dbUsers, dbPosts, dbComments, autoUser, autoPost,
                       autoComment, now, goBan>>

\* POST /comment
PostComment(sess, csrfOk, postID, t) ==
    LET s == getSessionUser(memcache, dbUsers, sess)
        cid == autoComment
    IN  /\ autoComment <= MaxCid
        /\ IF isLogin(s.me) /\ csrfOk
           THEN /\ dbComments' = dbComments \cup
                       {[ID |-> cid, PostID |-> postID, UserID |-> s.me.ID,
                         CreatedAt |-> t]}
                /\ autoComment' = autoComment + 1
                /\ now' = t
                /\ memcache' = appendCommentCache(s.mc, postID, s.me, cid, t)
                /\ Ran([op |-> "appendComment", pid |-> postID, cid |-> cid,
                        cached |-> Has(s.mc, getCommentsCacheKey(postID)),
                        err |-> FALSE], NoData)
           ELSE /\ memcache' = s.mc
                /\ Ran([op |-> "postComment", status |-> "refused"], NoData)
                /\ UNCHANGED <<dbComments, autoComment, now>>
        /\ UNCHANGED <<dbUsers, dbPosts, autoUser, autoPost, goBan>>

\* GET /
GetIndex(sess) ==
    LET s == getSessionUser(memcache, dbUsers, sess)
        gi == getIndexPosts(s.mc, dbPosts, dbUsers)
        mp == makePosts(gi.mc, dbUsers, dbComments, gi.posts, FALSE)
    IN  /\ memcache' = mp.mc
        /\ Ran([op |-> "getIndex", cached |-> Has(s.mc, getIndexPostsCacheKey),
                queried |-> gi.queried],
               [results |-> gi.posts, posts |-> mp.posts])
        /\ UNCHANGED <<dbUsers, dbPosts, dbComments, autoUser, autoPost,
                       autoComment, now, goBan>>

\* the Content-Type test of postIndex
MimeOf(contentType) ==
    IF contentType = "image/jpeg" THEN "image/jpeg"
    ELSE IF contentType = "image/png" THEN "image/png"
    ELSE IF contentType = "image/gif" THEN "image/gif"
    ELSE ""

\* POST /: upload is FALSE when the file is missing or too large or cannot
\* be copied to its temporary file, moved is FALSE when os.Chmod or
\* os.Rename fails after the INSERT
PostIndex(sess, csrfOk, contentType, upload, moved, t) ==
    LET s == getSessionUser(memcache, dbUsers, sess)
        pid == autoPost
    IN  /\ autoPost <= MaxPid
        /\ IF isLogin(s.me) /\ csrfOk /\ upload /\ MimeOf(contentType) # ""
           THEN /\ dbPosts' = dbPosts \cup
                       {[ID |-> pid, UserID |-> s.me.ID,
                         Mime |-> MimeOf(contentType), CreatedAt |-> t]}
                /\ autoPost' = autoPost + 1
                /\ now' = t
                /\ memcache' = IF moved THEN Delete(s.mc, getIndexPostsCacheKey)
                               ELSE s.mc
                /\ Ran([op |-> "postIndex", pid |-> pid, inserted |-> TRUE,
                        moved |-> moved,
                        hadIndex |-> Has(s.mc, getIndexPostsCacheKey)], NoData)
           ELSE /\ memcache' = s.mc
                /\ Ran([op |-> "postIndex", pid |-> 0, inserted |-> FALSE,
                        moved |-> FALSE,
                        hadIndex |-> Has(s.mc, getIndexPostsCacheKey)], NoData)
                /\ UNCHANGED <<dbPosts, autoPost, now>>
        /\ UNCHANGED <<dbUsers, dbComments, autoUser, autoComment, goBan>>

\* GET /posts/:id
GetPostsID(sess, pid) ==
    LET results == MapPost(OrderByCreatedAt({p \in dbPosts : p.ID = pid}))
        mp == makePosts(memcache, dbUsers, dbComments, results, TRUE)
        s == getSessionUser(mp.mc, dbUsers, sess)
    IN  /\ memcache' = IF mp.posts = << >> THEN mp.mc ELSE s.mc
        /\ Ran([op |-> "getPostsID", pid |-> pid], [posts |-> mp.posts])
        /\ UNCHANGED <<dbUsers, dbPosts, dbComments, autoUser, autoPost,
                       autoComment, now, goBan>>

\* GET /posts?max_created_at=
GetPosts(maxCreatedAt) ==
    LET results == MapPost(Limit(OrderByCreatedAtDesc(
                       {p \in dbPosts : /\ p.UserID \in VisibleUids(dbUsers)
                                        /\ p.CreatedAt <= maxCreatedAt}),
                       postsPerPage))
        mp == makePosts(memcache, dbUsers, dbComments, results, FALSE)
    IN  /\ memcache' = mp.mc
        /\ Ran([op |-> "getPosts"], [posts |-> mp.posts])
        /\ UNCHANGED <<dbUsers, dbPosts, dbComments, autoUser, autoPost,
                       autoComment, now, goBan>>

\* GET /@accountName, for the name of a user the store shows with del_flg = 0
GetAccountName(sess, uid) ==
    LET results == MapPost(Limit(OrderByCreatedAtDesc(
                       {p \in dbPosts : p.UserID = uid}), postsPerPage))
        mp == makePosts(memcache, dbUsers, dbComments, results, FALSE)
        s == getSessionUser(mp.mc, dbUsers, sess)
    IN  /\ uid \in VisibleUids(dbUsers)
        /\ memcache' = s.mc
        /\ Ran([op |-> "getAccountName"], [posts |-> mp.posts])
        /\ UNCHANGED <<dbUsers, dbPosts, dbComments, autoUser, autoPost,
                       autoComment, now, goBan>>

\* a call of makePosts(results, CSRFToken, allComments) on a list of
\* candidate posts
MakePosts(results, allComments) ==
    LET mp == makePosts(memcache, dbUsers, dbComments, results, allComments)
    IN  /\ memcache' = mp.mc
        /\ Ran([op |-> "makePosts",
                results |-> [i \in 1..Len(results) |-> results[i].ID],
                allComments |-> allComments, fetched |-> mp.fetched,
                had |-> {i \in 1..Len(results) :
                            Has(memcache, getCommentsCacheKey(results[i].ID))}],
               [posts |-> mp.posts])
        /\ UNCHANGED <<dbUsers, dbPosts, dbComments, autoUser, autoPost,
                       autoComment, now, goBan>>

(***************************************************************************)
(* The comment cache under concurrent requests: getComments and            *)
(* appendComment statement by statement.  pc is the source line the thread *)
(* is about to run; held is the set of mutexes it holds.                   *)
(***************************************************************************)
\* comments are posted from the form of a post that was created
CreatedPids == 1..(autoPost - 1)

\* the user who comments
Commenters == {2}

\* a Lock that does not wait
Lock_NoWait(mtx) == TRUE

\* sync.Mutex.Lock returns when no thread holds the mutex
Lock(mtx) == \A q \in Procs : mtx \notin threads[q].held

At(p, op, pc) == threads[p].op = op /\ threads[p].pc = pc
Goto(p, pc, loc, held) ==
    threads' = [threads EXCEPT ![p] = [op |-> @.op, pc |-> pc, held |-> held,
                                       loc |-> loc]]
\* return: the deferred Unlock runs
Return(p) == threads' = [threads EXCEPT ![p] = Idle]
Overlapped(p) == \E q \in Procs \ {p} : threads[q].op # "idle"

\* a request calls getComments(pid)
GetCommentsCall ==
    \E p \in Procs, pid \in CreatedPids :
        /\ threads[p] = Idle
        /\ threads' = [threads EXCEPT ![p] =
               [op |-> "getComments", pc |-> 393, held |-> {},
                loc |-> [pid |-> pid, comments |-> << >>]]]
        /\ UNCHANGED <<dbUsers, dbPosts, dbComments, autoUser, autoPost,
                       autoComment, now, memcache, goBan, last>>

\* commentMtx.Lock()
GetCommentsLock ==
    \E p \in Procs :
        /\ At(p, "getComments", 393)
        /\ Lock("commentMtx")
        /\ Goto(p, 395, threads[p].loc, {"commentMtx"})
        /\ UNCHANGED <<dbUsers, dbPosts, dbComments, autoUser, autoPost,
                       autoComment, now, memcache, goBan, last>>

\* memcacheClient.Get(key): a hit returns the list
GetCommentsGet ==
    \E p \in Procs :
        LET key == getCommentsCacheKey(threads[p].loc.pid)
        IN  /\ At(p, "getComments", 395)
            /\ IF Has(memcache, key)
               THEN /\ Return(p)
                    /\ last' = [call |-> [op |-> "getComments",
                                          pid |-> threads[p].loc.pid,
                                          queried |-> FALSE,
                                          overlapped |-> Overlapped(p)],
                                data |-> [comments |-> Unmarshal(memcache[key])]]
               ELSE /\ Goto(p, 405, threads[p].loc, threads[p].held)
                    /\ UNCHANGED last
            /\ UNCHANGED <<dbUsers, dbPosts, dbComments, autoUser, autoPost,
                           autoComment, now, memcache, goBan>>

\* db.Select(&comments, ...)
GetCommentsSelect ==
    \E p \in Procs :
        /\ At(p, "getComments", 405)
        /\ Goto(p, 412,
                [threads[p].loc EXCEPT
                    !.comments = SelectComments(dbComments, threads[p].loc.pid)],
                threads[p].held)
        /\ UNCHANGED <<dbUsers, dbPosts, dbComments, autoUser, autoPost,
                       autoComment, now, memcache, goBan, last>>

\* memcacheClient.Set(...) and return
GetCommentsSet ==
    \E p \in Procs :
        /\ At(p, "getComments", 412)
        /\ memcache' = Set(memcache, getCommentsCacheKey(threads[p].loc.pid),
                           Marshal(threads[p].loc.comments))
        /\ Return(p)
        /\ last' = [call |-> [op |-> "getComments", pid |-> threads[p].loc.pid,
                              queried |-> TRUE, overlapped |-> Overlapped(p)],
                    data |-> [comments |-> threads[p].loc.comments]]
        /\ UNCHANGED <<dbUsers, dbPosts, dbComments, autoUser, autoPost,
                       autoComment, now, goBan>>

\* a request calls appendComment(postID, user, comment): the Comment is
\* built, with time.Now(), before the Lock.  No more appends are started
\* than the comments table has ids left.
AppendCommentCall ==
    \E p \in Procs, uid \in Commenters, postID \in CreatedPids :
        /\ threads[p] = Idle
        /\ autoComment + Cardinality({q \in Procs :
                              /\ threads[q].op = "appendComment"
                              /\ threads[q].pc <= 425}) <= MaxCid
        /\ threads' = [threads EXCEPT ![p] =
               [op |-> "appendComment", pc |-> 423, held |-> {},
                loc |-> [pid |-> postID, uid |-> uid, at |-> now, cid |-> 0,
                         comments |-> << >>]]]
        /\ UNCHANGED <<dbUsers, dbPosts, dbComments, autoUser, autoPost,
                       autoComment, now, memcache, goBan, last>>

\* commentMtx.Lock()
AppendCommentLock ==
    \E p \in Procs :
        /\ At(p, "appendComment", 423)
        /\ Lock("commentMtx")
        /\ Goto(p, 425, threads[p].loc, {"commentMtx"})
        /\ UNCHANGED <<dbUsers, dbPosts, dbComments, autoUser, autoPost,
                       autoComment, now, memcache, goBan, last>>

\* db.Exec("INSERT INTO comments ...") at second t of the store's clock
AppendCommentInsert ==
    \E p \in Procs, t \in Clock :
        /\ At(p, "appendComment", 425)
        /\ dbComments' = dbComments \cup
               {[ID |-> autoComment, PostID |-> threads[p].loc.pid,
                 UserID |-> threads[p].loc.uid, CreatedAt |-> t]}
        /\ autoComment' = autoComment + 1
        /\ now' = t
        /\ Goto(p, 429, [threads[p].loc EXCEPT !.cid = autoComment],
                threads[p].held)
        /\ UNCHANGED <<dbUsers, dbPosts, autoUser, autoPost, memcache, goBan,
                       last>>

\* memcacheClient.Get(key): a miss returns nil
AppendCommentGet ==
    \E p \in Procs :
        LET key == getCommentsCacheKey(threads[p].loc.pid)
        IN  /\ At(p, "appendComment", 429)
            /\ IF Has(memcache, key)
               THEN /\ Goto(p, 442,
                            [threads[p].loc EXCEPT
                                !.comments = Unmarshal(memcache[key])],
                            threads[p].held)
                    /\ UNCHANGED last
               ELSE /\ Return(p)
                    /\ last' = [call |-> [op |-> "appendComment",
                                          pid |-> threads[p].loc.pid,
                                          cid |-> threads[p].loc.cid,
                                          cached |-> FALSE, err |-> FALSE,
                                          overlapped |-> Overlapped(p)],
                                data |-> NoData]
            /\ UNCHANGED <<dbUsers, dbPosts, dbComments, autoUser, autoPost,
                           autoComment, now, memcache, goBan>>

\* comments = append(comments, c), memcacheClient.Set(...) and return
AppendCommentSet ==
    \E p \in Procs :
        LET loc == threads[p].loc
            c == [ID |-> loc.cid, PostID |-> loc.pid, UserID |-> loc.uid,
                  CreatedAt |-> loc.at, User |-> dbUsers[loc.uid]]
        IN  /\ At(p, "appendComment", 442)
            /\ memcache' = Set(memcache, getCommentsCacheKey(loc.pid),
                               Marshal(Append(loc.comments, c)))
            /\ Return(p)
            /\ last' = [call |-> [op |-> "appendComment", pid |-> loc.pid,
                                  cid |-> loc.cid, cached |-> TRUE,
                                  err |-> FALSE, overlapped |-> Overlapped(p)],
                        data |-> NoData]
            /\ UNCHANGED <<dbUsers, dbPosts, dbComments, autoUser, autoPost,
                           autoComment, now, goBan>>

(***************************************************************************)
(* The recent-posts blob under concurrent requests: getIndexPosts and the  *)
(* ban of postAdminBanned, sent by the administrator with a matching       *)
(* csrf_token and numeric uid[] values, statement by statement.            *)
(***************************************************************************)
\* a request calls getIndexPosts(): postMtx.Lock()
GetIndexPostsLock ==
    \E p \in Procs :
        /\ threads[p] = Idle
        /\ Lock("postMtx")
        /\ threads' = [threads EXCEPT ![p] =
               [op |-> "getIndexPosts", pc |-> 366, held |-> {"postMtx"},
                loc |-> [posts |-> << >>]]]
        /\ UNCHANGED <<dbUsers, dbPosts, dbComments, autoUser, autoPost,
                       autoComment, now, memcache, goBan, last>>

\* memcacheClient.Get(key): a hit returns the list
GetIndexPostsGet ==
    \E p \in Procs :
        /\ At(p, "getIndexPosts", 366)
        /\ IF Has(memcache, getIndexPostsCacheKey)
           THEN Return(p)
           ELSE Goto(p, 374, threads[p].loc, threads[p].held)
        /\ UNCHANGED <<dbUsers, dbPosts, dbComments, autoUser, autoPost,
                       autoComment, now, memcache, goBan, last>>

\* db.Select(&posts, ...)
GetIndexPostsSelect ==
    \E p \in Procs :
        /\ At(p, "getIndexPosts", 374)
        /\ Goto(p, 380, [posts |-> SelectIndexPosts(dbPosts, dbUsers)],
                threads[p].held)
        /\ UNCHANGED <<dbUsers, dbPosts, dbComments, autoUser, autoPost,
                       autoComment, now, memcache, goBan, last>>

\* memcacheClient.Set(...) and return
GetIndexPostsSet ==
    \E p \in Procs :
        /\ At(p, "getIndexPosts", 380)
        /\ memcache' = Set(memcache, getIndexPostsCacheKey,
                           Marshal(threads[p].loc.posts))
        /\ Return(p)
        /\ UNCHANGED <<dbUsers, dbPosts, dbComments, autoUser, autoPost,
                       autoComment, now, goBan, last>>

\* POST /admin/banned passes its checks with the uid[] values of form
PostAdminBannedCall ==
    \E p \in Procs, form \in SUBSET {a \in FormUids : ~Atoi(a).err} :
        /\ threads[p] = Idle
        /\ form # {}
        /\ threads' = [threads EXCEPT ![p] =
               [op |-> "postAdminBanned", pc |-> 1033, held |-> {},
                loc |-> [form |-> form, uids |-> {a.num : a \in form},
                         stale |-> FALSE, overlapped |-> FALSE]]]
        /\ UNCHANGED <<dbUsers, dbPosts, dbComments, autoUser, autoPost,
                       autoComment, now, memcache, goBan, last>>

\* db.Exec(query, 1, id) for the next id of the form; Atoi succeeds and no
\* goroutine is started
PostAdminBannedExec ==
    \E p \in Procs :
        /\ At(p, "postAdminBanned", 1033)
        /\ \E a \in threads[p].loc.form :
               /\ dbUsers' = BanInStore(dbUsers, {a})
               /\ Goto(p, 1033,
                       [threads[p].loc EXCEPT
                           !.form = @ \ {a},
                           !.overlapped = @ \/ Overlapped(p)],
                       threads[p].held)
        /\ UNCHANGED <<dbPosts, dbComments, autoUser, autoPost,
                       autoComment, now, memcache, goBan, last>>

\* postMtx.Lock() after the loop
PostAdminBannedLock ==
    \E p \in Procs :
        /\ At(p, "postAdminBanned", 1033)
        /\ threads[p].loc.form = {}
        /\ Lock("postMtx")
        /\ Goto(p, 1044, threads[p].loc, {"postMtx"})
        /\ UNCHANGED <<dbUsers, dbPosts, dbComments, autoUser, autoPost,
                       autoComment, now, memcache, goBan, last>>

\* memcacheClient.Delete(getIndexPostsCacheKey()), postMtx.Unlock() and the
\* redirect: the request has finished.  stale: the entry deleted listed a
\* post of a user of the form.
PostAdminBannedDelete ==
    \E p \in Procs :
        LET key == getIndexPostsCacheKey
        IN  /\ At(p, "postAdminBanned", 1044)
            /\ memcache' = Delete(memcache, key)
            /\ Return(p)
            /\ last' = [call |-> [op |-> "postAdminBanned",
                                  uids |-> threads[p].loc.uids,
                                  stale |-> /\ Has(memcache, key)
                                            /\ \E i \in 1..Len(Unmarshal(memcache[key])) :
                                                  Unmarshal(memcache[key])[i].UserID
                                                      \in threads[p].loc.uids,
                                  overlapped |-> threads[p].loc.overlapped],
                        data |-> NoData]
            /\ UNCHANGED <<dbUsers, dbPosts, dbComments, autoUser, autoPost,
                           autoComment, now, goBan>>

(***************************************************************************)
(* The cache operations called with a backend or a store that may fail,    *)
(* and a backend whose entries may be damaged behind the program's back.   *)
(***************************************************************************)
\* getUsers(uids)
GetUsersIO(uids, getOk, selOk, setOk) ==
    LET r == getUsersIO(memcache, dbUsers, uids, getOk, selOk, setOk)
    IN  /\ memcache' = r.mc
        /\ Ran([op |-> "getUsers", uids |-> uids, missUids |-> r.missUids,
                getOk |-> getOk, selOk |-> selOk, setOk |-> setOk,
                err |-> r.err, panic |-> r.panic],
               [users |-> r.users])
        /\ UNCHANGED <<dbUsers, dbPosts, dbComments, autoUser, autoPost,
                       autoComment, now, goBan>>

\* getIndexPosts()
GetIndexPostsIO(getOk, selOk, setOk) ==
    LET r == getIndexPostsIO(memcache, dbPosts, dbUsers, getOk, selOk, setOk)
    IN  /\ memcache' = r.mc
        /\ Ran([op |-> "getIndexPosts", queried |-> r.queried,
                getOk |-> getOk, selOk |-> selOk, setOk |-> setOk,
                err |-> r.err, panic |-> r.panic],
               [posts |-> r.posts])
        /\ UNCHANGED <<dbUsers, dbPosts, dbComments, autoUser, autoPost,
                       autoComment, now, goBan>>

\* getComments(pid)
GetCommentsIO(pid, getOk, selOk, setOk) ==
    LET r == getCommentsIO(memcache, dbComments, pid, getOk, selOk, setOk)
    IN  /\ memcache' = r.mc
        /\ Ran([op |-> "getComments", pid |-> pid, queried |-> r.queried,
                getOk |-> getOk, selOk |-> selOk, setOk |-> setOk,
                err |-> r.err, panic |-> r.panic],
               [comments |-> r.comments])
        /\ UNCHANGED <<dbUsers, dbPosts, dbComments, autoUser, autoPost,
                       autoComment, now, goBan>>

\* appendComment(postID, user, comment) at second t: execOk is FALSE when
\* the INSERT returns an error
AppendCommentIO(uid, postID, t, execOk, getOk, setOk) ==
    LET cid == autoComment
        key == getCommentsCacheKey(postID)
        r == appendCommentIO(memcache, postID, dbUsers[uid], cid, t, getOk, setOk)
    IN  /\ autoComment <= MaxCid
        /\ IF execOk
           THEN /\ dbComments' = dbComments \cup
                       {[ID |-> cid, PostID |-> postID, UserID |-> uid,
                         CreatedAt |-> t]}
                /\ autoComment' = autoComment + 1
                /\ now' = t
                /\ memcache' = r.mc
                /\ Ran([op |-> "appendComment", pid |-> postID, cid |-> cid,
                        cached |-> Has(memcache, key), execOk |-> TRUE,
                        getOk |-> getOk, setOk |-> setOk,
                        err |-> r.err, panic |-> FALSE, inserted |-> TRUE],
                       NoData)
           ELSE /\ Ran([op |-> "appendComment", pid |-> postID, cid |-> 0,
                        cached |-> Has(memcache, key), execOk |-> FALSE,
                        getOk |-> getOk, setOk |-> setOk,
                        err |-> TRUE, panic |-> FALSE, inserted |-> FALSE],
                       NoData)
                /\ UNCHANGED <<dbComments, autoComment, now, memcache>>
        /\ UNCHANGED <<dbUsers, dbPosts, autoUser, autoPost, goBan>>

\* appendUser(accountName, passhash) at second t: execOk is FALSE when the
\* INSERT returns an error
AppendUserIO(accountName, passhash, t, execOk, setOk) ==
    LET u == User(autoUser, accountName, passhash, 0, 0, t)
    IN  /\ autoUser <= MaxUid
        /\ \A i \in DOMAIN dbUsers : dbUsers[i].AccountName # accountName
        /\ IF execOk
           THEN /\ dbUsers' = [i \in DOMAIN dbUsers \cup {u.ID} |->
                                  IF i = u.ID THEN u ELSE dbUsers[i]]
                /\ autoUser' = autoUser + 1
                /\ now' = t
                /\ memcache' = IF setOk
                               THEN Set(memcache, getUserCacheKey(u.ID), Marshal(u))
                               ELSE memcache
                /\ Ran([op |-> "appendUser", id |-> u.ID, err |-> FALSE,
                        execOk |-> TRUE, setOk |-> setOk, inserted |-> TRUE,
                        accountName |-> accountName, passhash |-> passhash],
                       NoData)
           ELSE /\ Ran([op |-> "appendUser", id |-> -1, err |-> TRUE,
                        execOk |-> FALSE, setOk |-> setOk, inserted |-> FALSE,
                        accountName |-> accountName, passhash |-> passhash],
                       NoData)
                /\ UNCHANGED <<dbUsers, autoUser, now, memcache>>
        /\ UNCHANGED <<dbPosts, dbComments, autoPost, autoComment, goBan>>

\* banUserOnCache(userID)
BanUserOnCacheIO(userID, getOk, setOk) ==
    LET r == banUserOnCacheIO(memcache, userID, getOk, setOk)
        key == getUserCacheKey(userID)
    IN  /\ memcache' = r.mc
        /\ Ran([op |-> "banUserOnCache", uid |-> userID,
                cached |-> Has(memcache, key), getOk |-> getOk, setOk |-> setOk,
                err |-> FALSE, panic |-> r.panic],
               NoData)
        /\ UNCHANGED <<dbUsers, dbPosts, dbComments, autoUser, autoPost,
                       autoComment, now, goBan>>

\* an entry of the backend is overwritten with bytes that are no JSON: the
\* backend is a socket other writers can reach
Corrupt(key) ==
    /\ Has(memcache, key)
    /\ Valid(memcache[key])
    /\ memcache' = Set(memcache, key, Garbage)
    /\ Ran([op |-> "corrupt", key |-> key], NoData)
    /\ UNCHANGED <<dbUsers, dbPosts, dbComments, autoUser, autoPost,
                   autoComment, now, goBan>>

(***************************************************************************)
(* Specifications.  Spec is the user domain: registration, batch reads,    *)
(* bans and /initialize.  The others add the handlers of one more domain   *)
(* to the same state.                                                      *)
(***************************************************************************)
Register ==
    \E accountName \in AccountNames, password \in Passwords, t \in Clock :
        PostRegister(accountName, password, t)
BatchGet == \E uids \in SUBSET Uids : GetUsers(uids)
\* a request whose csrf_token does not match is refused whatever its form
Ban ==
    \E sess \in Sessions, csrfOk \in BOOLEAN :
        \E form \in IF csrfOk THEN BanForms ELSE {{}} :
            PostAdminBanned(sess, csrfOk, form)

Next ==
    \/ Register
    \/ BatchGet
    \/ Ban
    \/ BanUserOnCacheGo
    \/ GetInitialize

Spec == Init /\ [][Next]_vars

\* the comment domain
AddComment ==
    \E sess \in Sessions, csrfOk \in BOOLEAN :
        \E postID \in IF csrfOk THEN CreatedPids ELSE {1},
           t \in IF csrfOk THEN Clock ELSE {now} :
            PostComment(sess, csrfOk, postID, t)
ReadComments == \E pid \in CreatedPids : GetComments(pid)

NextComments ==
    \/ AddComment
    \/ ReadComments
    \/ GetInitialize

SpecComments == Init /\ [][NextComments]_vars

\* the post index: a request that is refused before its INSERT is refused
\* whatever its other inputs are
Index == \E sess \in Sessions : GetIndex(sess)
Upload ==
    \E sess \in Sessions, csrfOk \in BOOLEAN, upload \in BOOLEAN :
        \E contentType \in IF csrfOk /\ upload THEN ContentTypes ELSE {"image/png"},
           moved \in IF csrfOk /\ upload THEN BOOLEAN ELSE {TRUE},
           t \in IF csrfOk /\ upload THEN Clock ELSE {now} :
            PostIndex(sess, csrfOk, contentType, upload, moved, t)

NextIndex ==
    \/ Index
    \/ Upload
    \/ Ban
    \/ BanUserOnCacheGo
    \/ GetInitialize

SpecIndex == Init /\ [][NextIndex]_vars

\* the pages that aggregate posts, with bans and /initialize
ShowPost == \E sess \in Sessions, pid \in Pids : GetPostsID(sess, pid)
Timeline == \E maxCreatedAt \in 0..MaxTime : GetPosts(maxCreatedAt)
Account == \E sess \in Sessions, uid \in Uids : GetAccountName(sess, uid)

NextPages ==
    \/ Index
    \/ ShowPost
    \/ Timeline
    \/ Account
    \/ Ban
    \/ BanUserOnCacheGo
    \/ GetInitialize

SpecPages == Init /\ [][NextPages]_vars

\* the pages that aggregate posts, with comments posted to seed post 1 by
\* seed user 2
NextAggregate ==
    \/ \E t \in Clock : PostComment(2, TRUE, 1, t)
    \/ GetIndex(0)
    \/ \E pid \in CreatedPids : GetPostsID(0, pid)

SpecAggregate == Init /\ [][NextAggregate]_vars

(***************************************************************************)
(* Lock discipline.  Every function that locks a mutex, touches the cache  *)
(* or calls one that does is a list of steps, each with the source line it *)
(* stands for:                                                             *)
(*   lock m, unlock m, defer m (m.Unlock() deferred to the return),        *)
(*   call f, go f, read m and write m (a cache read or write of the keys   *)
(*   mutex m guards), panic (the statement may panic), br (the branch may  *)
(*   go to step `to`) and jmp (it does).  A step past the last one         *)
(*   returns.  Statements that touch neither a mutex nor the cache are     *)
(*   left out; the early returns between two steps are one br.             *)
(***************************************************************************)
Steps ==
    [f \in {"getSessionUser", "getUsers", "banUserOnCache",
            "appendUser", "resetUserCache", "getIndexPosts",
            "getComments", "appendComment", "resetCommentCache",
            "resetCaches", "dbInitialize", "makePosts",
            "getInitialize", "getLogin", "postLogin",
            "getRegister", "postRegister", "getIndex",
            "getAccountName", "getPosts", "getPostsID",
            "postIndex", "postComment", "getAdminBanned",
            "postAdminBanned"} |->
          \* no user_id in the session: return; else getUsers
        CASE f = "getSessionUser" ->
              << [k |-> "br", m |-> "", to |-> 3, line |-> 213],
                 [k |-> "call", m |-> "getUsers", to |-> 0, line |-> 217] >>
          \* GetMulti, panic on a damaged hit, the miss query and a Set per row
          [] f = "getUsers" ->
              << [k |-> "lock", m |-> "userMtx", to |-> 0, line |-> 251],
                 [k |-> "defer", m |-> "userMtx", to |-> 0, line |-> 252],
                 [k |-> "read", m |-> "userMtx", to |-> 0, line |-> 254],
                 [k |-> "panic", m |-> "", to |-> 0, line |-> 267],
                 [k |-> "br", m |-> "", to |-> 11, line |-> 275],
                 [k |-> "panic", m |-> "", to |-> 0, line |-> 278],
                 [k |-> "br", m |-> "", to |-> 11, line |-> 282],
                 [k |-> "panic", m |-> "", to |-> 0, line |-> 287],
                 [k |-> "write", m |-> "userMtx", to |-> 0, line |-> 289],
                 [k |-> "br", m |-> "", to |-> 8, line |-> 282] >>
          \* Get, return on a miss, Set
          [] f = "banUserOnCache" ->
              << [k |-> "lock", m |-> "userMtx", to |-> 0, line |-> 300],
                 [k |-> "defer", m |-> "userMtx", to |-> 0, line |-> 301],
                 [k |-> "read", m |-> "userMtx", to |-> 0, line |-> 303],
                 [k |-> "br", m |-> "", to |-> 8, line |-> 304],
                 [k |-> "panic", m |-> "", to |-> 0, line |-> 309],
                 [k |-> "panic", m |-> "", to |-> 0, line |-> 314],
                 [k |-> "write", m |-> "userMtx", to |-> 0, line |-> 317] >>
          \* INSERT, return on an error, Set
          [] f = "appendUser" ->
              << [k |-> "lock", m |-> "userMtx", to |-> 0, line |-> 322],
                 [k |-> "defer", m |-> "userMtx", to |-> 0, line |-> 323],
                 [k |-> "br", m |-> "", to |-> 5, line |-> 325],
                 [k |-> "write", m |-> "userMtx", to |-> 0, line |-> 337] >>
          \* SELECT * FROM users, then a Set per row
          [] f = "resetUserCache" ->
              << [k |-> "panic", m |-> "", to |-> 0, line |-> 344],
                 [k |-> "br", m |-> "", to |-> 6, line |-> 347],
                 [k |-> "panic", m |-> "", to |-> 0, line |-> 350],
                 [k |-> "write", m |-> "userMtx", to |-> 0, line |-> 353],
                 [k |-> "br", m |-> "", to |-> 3, line |-> 347] >>
          \* Get; a hit returns; a miss queries and Sets
          [] f = "getIndexPosts" ->
              << [k |-> "lock", m |-> "postMtx", to |-> 0, line |-> 364],
                 [k |-> "defer", m |-> "postMtx", to |-> 0, line |-> 365],
                 [k |-> "read", m |-> "postMtx", to |-> 0, line |-> 366],
                 [k |-> "br", m |-> "", to |-> 7, line |-> 367],
                 [k |-> "panic", m |-> "", to |-> 0, line |-> 370],
                 [k |-> "jmp", m |-> "", to |-> 9, line |-> 372],
                 [k |-> "br", m |-> "", to |-> 9, line |-> 375],
                 [k |-> "write", m |-> "postMtx", to |-> 0, line |-> 380] >>
          \* Get; a hit returns; a miss queries and Sets
          [] f = "getComments" ->
              << [k |-> "lock", m |-> "commentMtx", to |-> 0, line |-> 393],
                 [k |-> "defer", m |-> "commentMtx", to |-> 0, line |-> 394],
                 [k |-> "read", m |-> "commentMtx", to |-> 0, line |-> 395],
                 [k |-> "br", m |-> "", to |-> 7, line |-> 396],
                 [k |-> "panic", m |-> "", to |-> 0, line |-> 399],
                 [k |-> "jmp", m |-> "", to |-> 9, line |-> 401],
                 [k |-> "br", m |-> "", to |-> 9, line |-> 406],
                 [k |-> "write", m |-> "commentMtx", to |-> 0, line |-> 412] >>
          \* INSERT, Get, return on a miss or an error, Set
          [] f = "appendComment" ->
              << [k |-> "lock", m |-> "commentMtx", to |-> 0, line |-> 423],
                 [k |-> "defer", m |-> "commentMtx", to |-> 0, line |-> 424],
                 [k |-> "br", m |-> "", to |-> 7, line |-> 426],
                 [k |-> "read", m |-> "commentMtx", to |-> 0, line |-> 429],
                 [k |-> "br", m |-> "", to |-> 7, line |-> 430],
                 [k |-> "write", m |-> "commentMtx", to |-> 0, line |-> 447] >>
          \* SELECT id FROM posts, then getComments per post
          [] f = "resetCommentCache" ->
              << [k |-> "panic", m |-> "", to |-> 0, line |-> 454],
                 [k |-> "br", m |-> "", to |-> 5, line |-> 457],
                 [k |-> "call", m |-> "getComments", to |-> 0, line |-> 458],
                 [k |-> "br", m |-> "", to |-> 3, line |-> 457] >>
          [] f = "resetCaches" ->
              << [k |-> "call", m |-> "resetUserCache", to |-> 0, line |-> 155],
                 [k |-> "call", m |-> "resetCommentCache", to |-> 0, line |-> 156] >>
          \* the DELETEs and UPDATEs of the store, then resetCaches
          [] f = "dbInitialize" ->
              << [k |-> "call", m |-> "resetCaches", to |-> 0, line |-> 151] >>
          \* per candidate: getComments, getUsers, break on a full page
          [] f = "makePosts" ->
              << [k |-> "br", m |-> "", to |-> 8, line |-> 465],
                 [k |-> "call", m |-> "getComments", to |-> 0, line |-> 466],
                 [k |-> "br", m |-> "", to |-> 8, line |-> 467],
                 [k |-> "call", m |-> "getUsers", to |-> 0, line |-> 480],
                 [k |-> "br", m |-> "", to |-> 8, line |-> 481],
                 [k |-> "br", m |-> "", to |-> 8, line |-> 495],
                 [k |-> "br", m |-> "", to |-> 2, line |-> 465] >>
          [] f = "getInitialize" ->
              << [k |-> "call", m |-> "dbInitialize", to |-> 0, line |-> 542] >>
          [] f = "getLogin" ->
              << [k |-> "call", m |-> "getSessionUser", to |-> 0, line |-> 547] >>
          [] f = "postLogin" ->
              << [k |-> "call", m |-> "getSessionUser", to |-> 0, line |-> 564] >>
          [] f = "getRegister" ->
              << [k |-> "call", m |-> "getSessionUser", to |-> 0, line |-> 588] >>
          [] f = "postRegister" ->
              << [k |-> "call", m |-> "getSessionUser", to |-> 0, line |-> 603],
                 [k |-> "br", m |-> "", to |-> 4, line |-> 604],
                 [k |-> "call", m |-> "appendUser", to |-> 0, line |-> 634] >>
          [] f = "getIndex" ->
              << [k |-> "call", m |-> "getSessionUser", to |-> 0, line |-> 656],
                 [k |-> "call", m |-> "getIndexPosts", to |-> 0, line |-> 658],
                 [k |-> "br", m |-> "", to |-> 5, line |-> 659],
                 [k |-> "call", m |-> "makePosts", to |-> 0, line |-> 664] >>
          \* postMtx is held around each of the two queries on posts
          [] f = "getAccountName" ->
              << [k |-> "br", m |-> "", to |-> 11, line |-> 682],
                 [k |-> "lock", m |-> "postMtx", to |-> 0, line |-> 693],
                 [k |-> "unlock", m |-> "postMtx", to |-> 0, line |-> 695],
                 [k |-> "br", m |-> "", to |-> 11, line |-> 696],
                 [k |-> "call", m |-> "makePosts", to |-> 0, line |-> 701],
                 [k |-> "br", m |-> "", to |-> 11, line |-> 702],
                 [k |-> "lock", m |-> "postMtx", to |-> 0, line |-> 715],
                 [k |-> "unlock", m |-> "postMtx", to |-> 0, line |-> 717],
                 [k |-> "br", m |-> "", to |-> 11, line |-> 718],
                 [k |-> "call", m |-> "getSessionUser", to |-> 0, line |-> 745] >>
          [] f = "getPosts" ->
              << [k |-> "br", m |-> "", to |-> 6, line |-> 758],
                 [k |-> "lock", m |-> "postMtx", to |-> 0, line |-> 775],
                 [k |-> "unlock", m |-> "postMtx", to |-> 0, line |-> 777],
                 [k |-> "br", m |-> "", to |-> 6, line |-> 778],
                 [k |-> "call", m |-> "makePosts", to |-> 0, line |-> 783] >>
          [] f = "getPostsID" ->
              << [k |-> "br", m |-> "", to |-> 8, line |-> 799],
                 [k |-> "lock", m |-> "postMtx", to |-> 0, line |-> 805],
                 [k |-> "unlock", m |-> "postMtx", to |-> 0, line |-> 807],
                 [k |-> "br", m |-> "", to |-> 8, line |-> 808],
                 [k |-> "call", m |-> "makePosts", to |-> 0, line |-> 813],
                 [k |-> "br", m |-> "", to |-> 8, line |-> 814],
                 [k |-> "call", m |-> "getSessionUser", to |-> 0, line |-> 826] >>
          \* postMtx is held from the INSERT to the return
          [] f = "postIndex" ->
              << [k |-> "call", m |-> "getSessionUser", to |-> 0, line |-> 843],
                 [k |-> "br", m |-> "", to |-> 7, line |-> 844],
                 [k |-> "lock", m |-> "postMtx", to |-> 0, line |-> 920],
                 [k |-> "defer", m |-> "postMtx", to |-> 0, line |-> 921],
                 [k |-> "br", m |-> "", to |-> 7, line |-> 929],
                 [k |-> "write", m |-> "postMtx", to |-> 0, line |-> 951] >>
          [] f = "postComment" ->
              << [k |-> "call", m |-> "getSessionUser", to |-> 0, line |-> 958],
                 [k |-> "br", m |-> "", to |-> 4, line |-> 959],
                 [k |-> "call", m |-> "appendComment", to |-> 0, line |-> 975] >>
          [] f = "getAdminBanned" ->
              << [k |-> "call", m |-> "getSessionUser", to |-> 0, line |-> 985] >>
          \* per uid[]: UPDATE, go banUserOnCache when Atoi failed; then Delete
          [] f = "postAdminBanned" ->
              << [k |-> "call", m |-> "getSessionUser", to |-> 0, line |-> 1014],
                 [k |-> "br", m |-> "", to |-> 10, line |-> 1015],
                 [k |-> "br", m |-> "", to |-> 7, line |-> 1033],
                 [k |-> "br", m |-> "", to |-> 6, line |-> 1036],
                 [k |-> "go", m |-> "banUserOnCache", to |-> 0, line |-> 1037],
                 [k |-> "br", m |-> "", to |-> 4, line |-> 1033],
                 [k |-> "lock", m |-> "postMtx", to |-> 0, line |-> 1043],
                 [k |-> "write", m |-> "postMtx", to |-> 0, line |-> 1044],
                 [k |-> "unlock", m |-> "postMtx", to |-> 0, line |-> 1045] >> ]

\* the routes of main
Handlers ==
    {"getInitialize", "getLogin", "postLogin", "getRegister",
     "postRegister", "getIndex", "getAccountName", "getPosts",
     "getPostsID", "postIndex", "postComment", "getAdminBanned",
     "postAdminBanned"}

\* m.Unlock() that leaves the mutex locked
Unlock_Keep(held, mtx) == held

\* m.Unlock()
Unlock(held, mtx) == held \ {mtx}

\* the frame a thread runs, and the step it is about to run
Top(p) == threads[p].loc.stack[Len(threads[p].loc.stack)]
Returning(p) ==
    /\ threads[p].op \in Handlers \cup {"go"}
    /\ Top(p).pc > Len(Steps[Top(p).fn])
In(p, k) ==
    /\ threads[p].op \in Handlers \cup {"go"}
    /\ Top(p).pc <= Len(Steps[Top(p).fn])
    /\ Steps[Top(p).fn][Top(p).pc].k = k
Ins(p) == Steps[Top(p).fn][Top(p).pc]

Moved(p, stack, held) ==
    threads' = [threads EXCEPT ![p] =
        [op |-> @.op, pc |-> 0, held |-> held, loc |-> [stack |-> stack]]]
Forward(p) ==
    Moved(p, [threads[p].loc.stack EXCEPT ![Len(threads[p].loc.stack)].pc = @ + 1],
          threads[p].held)

\* a request arrives at one of the routes
Request ==
    \E p \in Procs, h \in Handlers :
        /\ threads[p] = Idle
        /\ threads' = [threads EXCEPT ![p] =
               [op |-> h, pc |-> 0, held |-> {},
                loc |-> [stack |-> <<[fn |-> h, pc |-> 1, defers |-> {}]>>]]]
        /\ UNCHANGED <<dbUsers, dbPosts, dbComments, autoUser, autoPost,
                       autoComment, now, memcache, goBan, last>>

\* a goroutine started by "go func() { banUserOnCache(uid) }()" runs
Goroutine ==
    \E p \in Procs, uid \in goBan :
        /\ threads[p] = Idle
        /\ threads' = [threads EXCEPT ![p] =
               [op |-> "go", pc |-> 0, held |-> {},
                loc |-> [stack |-> <<[fn |-> "banUserOnCache", pc |-> 1, defers |-> {}]>>]]]
        /\ goBan' = goBan \ {uid}
        /\ UNCHANGED <<dbUsers, dbPosts, dbComments, autoUser, autoPost,
                       autoComment, now, memcache, last>>

StepLock ==
    \E p \in Procs :
        /\ In(p, "lock")
        /\ Lock(Ins(p).m)
        /\ Moved(p, [threads[p].loc.stack EXCEPT
                        ![Len(threads[p].loc.stack)].pc = @ + 1],
                 threads[p].held \cup {Ins(p).m})
        /\ UNCHANGED <<dbUsers, dbPosts, dbComments, autoUser, autoPost,
                       autoComment, now, memcache, goBan, last>>

StepDefer ==
    \E p \in Procs :
        /\ In(p, "defer")
        /\ Moved(p, [threads[p].loc.stack EXCEPT
                        ![Len(threads[p].loc.stack)] =
                            [fn |-> @.fn, pc |-> @.pc + 1,
                             defers |-> @.defers \cup {Ins(p).m}]],
                 threads[p].held)
        /\ UNCHANGED <<dbUsers, dbPosts, dbComments, autoUser, autoPost,
                       autoComment, now, memcache, goBan, last>>

StepUnlock ==
    \E p \in Procs :
        /\ In(p, "unlock")
        /\ Moved(p, [threads[p].loc.stack EXCEPT
                        ![Len(threads[p].loc.stack)].pc = @ + 1],
                 Unlock(threads[p].held, Ins(p).m))
        /\ UNCHANGED <<dbUsers, dbPosts, dbComments, autoUser, autoPost,
                       autoComment, now, memcache, goBan, last>>

StepCall ==
    \E p \in Procs :
        /\ In(p, "call")
        /\ Moved(p, Append([threads[p].loc.stack EXCEPT
                               ![Len(threads[p].loc.stack)].pc = @ + 1],
                           [fn |-> Ins(p).m, pc |-> 1, defers |-> {}]),
                 threads[p].held)
        /\ UNCHANGED <<dbUsers, dbPosts, dbComments, autoUser, autoPost,
                       autoComment, now, memcache, goBan, last>>

\* uid is 0 here: the goroutine is started when strconv.Atoi failed
StepGo ==
    \E p \in Procs :
        /\ In(p, "go")
        /\ goBan' = goBan \cup {0}
        /\ Forward(p)
        /\ UNCHANGED <<dbUsers, dbPosts, dbComments, autoUser, autoPost,
                       autoComment, now, memcache, last>>

\* a cache read or write
StepCache ==
    \E p \in Procs :
        /\ In(p, "read") \/ In(p, "write")
        /\ Forward(p)
        /\ UNCHANGED <<dbUsers, dbPosts, dbComments, autoUser, autoPost,
                       autoComment, now, memcache, goBan, last>>

\* the statement panics, and the deferred Unlocks of every frame run, or
\* it does not; a thread that ends keeps the mutexes it did not release
StepPanic ==
    \E p \in Procs :
        /\ In(p, "panic")
        /\ \/ Forward(p)
           \/ threads' = [threads EXCEPT ![p] = [Idle EXCEPT !.held =
                  threads[p].held \
                      UNION {threads[p].loc.stack[i].defers :
                                i \in 1..Len(threads[p].loc.stack)}]]
        /\ UNCHANGED <<dbUsers, dbPosts, dbComments, autoUser, autoPost,
                       autoComment, now, memcache, goBan, last>>

StepBranch ==
    \E p \in Procs :
        /\ In(p, "br") \/ In(p, "jmp")
        /\ \/ In(p, "br") /\ Forward(p)
           \/ Moved(p, [threads[p].loc.stack EXCEPT
                           ![Len(threads[p].loc.stack)].pc = Ins(p).to],
                    threads[p].held)
        /\ UNCHANGED <<dbUsers, dbPosts, dbComments, autoUser, autoPost,
                       autoComment, now, memcache, goBan, last>>

\* return: the deferred Unlocks of the frame run
StepReturn ==
    \E p \in Procs :
        /\ Returning(p)
        /\ IF Len(threads[p].loc.stack) = 1
           THEN threads' = [threads EXCEPT ![p] = [Idle EXCEPT !.held =
                                threads[p].held \ Top(p).defers]]
           ELSE Moved(p, SubSeq(threads[p].loc.stack, 1,
                                Len(threads[p].loc.stack) - 1),
                      threads[p].held \ Top(p).defers)
        /\ UNCHANGED <<dbUsers, dbPosts, dbComments, autoUser, autoPost,
                       autoComment, now, memcache, goBan, last>>

\* concurrent requests, seen as lock, unlock and cache steps
NextLocks ==
    \/ Request
    \/ Goroutine
    \/ StepLock
    \/ StepDefer
    \/ StepUnlock
    \/ StepCall
    \/ StepGo
    \/ StepCache
    \/ StepPanic
    \/ StepBranch
    \/ StepReturn

SpecLocks == Init /\ [][NextLocks]_vars

\* concurrent requests that read and append comments
NextRace ==
    \/ GetCommentsCall
    \/ GetCommentsLock
    \/ GetCommentsGet
    \/ GetCommentsSelect
    \/ GetCommentsSet
    \/ AppendCommentCall
    \/ AppendCommentLock
    \/ AppendCommentInsert
    \/ AppendCommentGet
    \/ AppendCommentSet

SpecRace == Init /\ [][NextRace]_vars

(***************************************************************************)
(* scripts/extract_img.go: extractImg writes the image of every row of     *)
(* posts to a file, reading the table in pages.                            *)
(***************************************************************************)
limit == 2        \* rows per page (LIMIT ? OFFSET ?)

extMap ==
    [m \in {"image/jpeg", "image/gif", "image/png"} |->
        CASE m = "image/jpeg" -> ".jpeg"
          [] m = "image/gif" -> ".gif"
          [] m = "image/png" -> ".png"]

\* the inner loop over one page, from image i on.  files: the files written
\* so far; ioFail: the id whose os.Create or f.Write fails (0: none).
\* "return err" of an unknown mime returns the err of db.Select, which is
\* nil there.
RECURSIVE writeImages(_, _, _, _)
writeImages(images, i, files, ioFail) ==
    IF i > Len(images) THEN [returned |-> FALSE, err |-> FALSE, files |-> files]
    ELSE IF images[i].Mime \notin DOMAIN extMap
    THEN [returned |-> TRUE, err |-> FALSE, files |-> files]
    ELSE IF images[i].ID = ioFail
    THEN [returned |-> TRUE, err |-> TRUE, files |-> files]
    ELSE writeImages(images, i + 1,
                     files \cup {[Id |-> images[i].ID,
                                  ext |-> extMap[images[i].Mime]]},
                     ioFail)

\* the outer loop from OFFSET offset on.  rows: the table in the order the
\* unordered SELECT scans it, by id; selFail: the offset at which db.Select
\* returns an error (-1: none).
RECURSIVE extractImg(_, _, _, _, _)
extractImg(rows, offset, files, selFail, ioFail) ==
    IF offset = selFail THEN [err |-> TRUE, files |-> files]
    ELSE LET images == SubSeq(rows, offset + 1, Min(offset + limit, Len(rows)))
             w == writeImages(images, 1, files, ioFail)
         IN  IF Len(images) = 0 THEN [err |-> FALSE, files |-> files]
             ELSE IF w.returned THEN [err |-> w.err, files |-> w.files]
             ELSE extractImg(rows, offset + limit, w.files, selFail, ioFail)

\* a run of the script on the posts of the store
ExtractImg ==
    \E selFail \in {-1} \cup {k * limit : k \in 0..MaxPid},
       ioFail \in 0..MaxPid :
        LET r == extractImg(OrderByCreatedAt(dbPosts), 0, {}, selFail, ioFail)
        IN  /\ Ran([op |-> "extractImg", selFail |-> selFail,
                    ioFail |-> ioFail],
                   [err |-> r.err, files |-> r.files])
            /\ UNCHANGED <<dbUsers, dbPosts, dbComments, autoUser, autoPost,
                           autoComment, now, memcache, goBan>>

\* a posts table of up to MaxPid rows, of any mime type a row can hold
InitExtract ==
    /\ dbUsers = [i \in 1..SeedUsers |-> SeedUser(i)]
    /\ \E n \in 0..MaxPid :
           \E mime \in [1..n -> {"image/jpeg", "image/gif", "image/png", ""}] :
               /\ dbPosts = {[SeedPost(i) EXCEPT !.Mime = mime[i]] : i \in 1..n}
               /\ autoPost = n + 1
    /\ dbComments = {}
    /\ autoUser = SeedUsers + 1
    /\ autoComment = 1
    /\ now = 0
    /\ memcache = [k \in {} |-> 0]
    /\ goBan = {}
    /\ last = [call |-> [op |-> "init"], data |-> NoData]
    /\ threads = [p \in Procs |-> Idle]

SpecExtract == InitExtract /\ [][ExtractImg]_vars

\* getComments and appendComment, with calls to the backend and the store
\* that may fail, among index pages that fill the three cache domains
NextFrame ==
    \/ Index
    \/ \E pid \in CreatedPids, mcOk \in BOOLEAN, dbOk \in BOOLEAN :
           GetCommentsIO(pid, mcOk, dbOk, mcOk)
    \/ \E uid \in Commenters, postID \in CreatedPids, mcOk \in BOOLEAN,
          dbOk \in BOOLEAN :
           AppendCommentIO(uid, postID, now, dbOk, mcOk, mcOk)

SpecFrame == Init /\ [][NextFrame]_vars

\* concurrent bans and reads of the recent posts
NextBanRace ==
    \/ GetIndexPostsLock
    \/ GetIndexPostsGet
    \/ GetIndexPostsSelect
    \/ GetIndexPostsSet
    \/ PostAdminBannedCall
    \/ PostAdminBannedExec
    \/ PostAdminBannedLock
    \/ PostAdminBannedDelete

SpecBanRace == Init /\ [][NextBanRace]_vars

\* the cache operations with failing I/O and damaged entries.  A call finds
\* the backend reachable or not (mcOk) and the store answering or not (dbOk);
\* one entry is damaged at a time; comments are posted by seed user 2 to seed
\* post 1.  The
\* three domains share no key, so the operations of one domain are called
\* while the backend holds the keys of that domain only.
Commented == {1}
UserKeys == {getUserCacheKey(i) : i \in Uids}
IndexKeys == {getIndexPostsCacheKey}
CommentKeys == {getCommentsCacheKey(p) : p \in Pids}

BatchInputs == {S \in SUBSET Uids : Cardinality(S) <= 1} \cup {{1, 2, MaxUid}}

FaultyBatchGet ==
    \E uids \in BatchInputs, mcOk \in BOOLEAN, dbOk \in BOOLEAN :
        /\ DOMAIN memcache \subseteq UserKeys
        /\ GetUsersIO(uids, mcOk, dbOk, mcOk)
FaultyRecent ==
    \E mcOk \in BOOLEAN, dbOk \in BOOLEAN :
        /\ DOMAIN memcache \subseteq IndexKeys
        /\ GetIndexPostsIO(mcOk, dbOk, mcOk)
FaultyByPost ==
    \E pid \in CreatedPids, mcOk \in BOOLEAN, dbOk \in BOOLEAN :
        /\ DOMAIN memcache \subseteq CommentKeys
        /\ GetCommentsIO(pid, mcOk, dbOk, mcOk)
FaultyAppend ==
    \E uid \in Commenters, postID \in Commented, mcOk \in BOOLEAN,
       dbOk \in BOOLEAN :
        /\ DOMAIN memcache \subseteq CommentKeys
        /\ AppendCommentIO(uid, postID, now, dbOk, mcOk, mcOk)
FaultyCreate ==
    \E accountName \in AccountNames, password \in Passwords,
       mcOk \in BOOLEAN, dbOk \in BOOLEAN :
        /\ DOMAIN memcache \subseteq UserKeys
        /\ validateUser(accountName, password)
        /\ AppendUserIO(accountName, calculatePasshash(accountName, password),
                        now, dbOk, mcOk)
FaultyBan ==
    \E userID \in Uids, mcOk \in BOOLEAN :
        /\ DOMAIN memcache \subseteq UserKeys
        /\ BanUserOnCacheIO(userID, mcOk, mcOk)
Damage ==
    \E key \in DOMAIN memcache :
        /\ \A k \in DOMAIN memcache : Valid(memcache[k])
        /\ Corrupt(key)

NextFaults ==
    \/ FaultyBatchGet
    \/ FaultyRecent
    \/ FaultyByPost
    \/ FaultyAppend
    \/ FaultyCreate
    \/ FaultyBan
    \/ Damage

SpecFaults == Init /\ [][NextFaults]_vars

\* makePosts on the posts of the store in any order, among uploads that
\* succeed and bans of one user by the administrator
Candidates ==
    {s \in [1..Cardinality(dbPosts) -> dbPosts] :
        \A i, j \in 1..Len(s) : i # j => s[i] # s[j]}

Assemble ==
    \E results \in Candidates, allComments \in BOOLEAN :
        MakePosts(MapPost(results), allComments)

NextAssemble ==
    \/ \E sess \in Sessions \ {0}, t \in Clock :
           PostIndex(sess, TRUE, "image/png", TRUE, TRUE, t)
    \/ \E a \in FormUids : PostAdminBanned(1, TRUE, {a})
    \/ BanUserOnCacheGo
    \/ Assemble

SpecAssemble == Init /\ [][NextAssemble]_vars

\* banUserOnCache called for any user id, among registrations, batch reads
\* and the index page (which caches the blob, comment lists and users)
NextBan ==
    \/ Register
    \/ BatchGet
    \/ Index
    \/ \E userID \in Uids : BanUserOnCacheIO(userID, TRUE, TRUE)

SpecBan == Init /\ [][NextBan]_vars


(***************************************************************************)
(* UserCache: batchGet (getUsers), create (appendUser)                     *)
(***************************************************************************)
\* C1: the key set of the mapping getUsers(S) returns is a subset of S and is
\* exactly the ids of S that have a row in the store at call time, whatever
\* the cache held before.
C1_ResultIsStoreIds ==
    last.call.op = "getUsers" =>
        /\ DOMAIN last.data.users \subseteq last.call.uids
        /\ DOMAIN last.data.users = last.call.uids \cap DOMAIN dbUsers

\* C3: after appendUser returned id without error, getUsers({id}) run next
\* returns exactly one entry, for id, with the account name, password hash,
\* authority and deletion flag of the created record, without a store query.
C3_CreateThenGet ==
    (last.call.op = "appendUser" /\ ~last.call.err) =>
        LET id == last.call.id
            r == getUsers(memcache, dbUsers, {id})
        IN  /\ DOMAIN r.users = {id}
            /\ r.users[id].ID = id
            /\ r.users[id].AccountName = last.call.accountName
            /\ r.users[id].Passhash = last.call.passhash
            /\ r.users[id].Authority = 0
            /\ r.users[id].DelFlg = 0
            /\ r.users[id].AccountName = dbUsers[id].AccountName
            /\ r.users[id].Passhash = dbUsers[id].Passhash
            /\ r.users[id].Authority = dbUsers[id].Authority
            /\ r.users[id].DelFlg = dbUsers[id].DelFlg
            /\ r.missUids = {}

\* a registration has just returned the id of the user it created
C3_Witness ==
    /\ last.call.op = "appendUser"
    /\ ~last.call.err
    /\ last.call.id \in DOMAIN dbUsers
    /\ last.call.accountName = "alice"

\* C4 as stated: getUsers(S) run again right after getUsers(S) returns the
\* same mapping and asks the store for nothing.
C4_SecondCallNoQuery ==
    last.call.op = "getUsers" =>
        LET r == getUsers(memcache, dbUsers, last.call.uids)
        IN  /\ r.users = last.data.users
            /\ r.missUids = {}

\* C4 as amended: getUsers(S) run again right after getUsers(S) returns the
\* same mapping, and asks the store only for the ids of S that the first call
\* found nowhere; it asks for nothing when the first call found every id.
C4_SecondCallQueriesOnlyAbsent ==
    last.call.op = "getUsers" =>
        LET r == getUsers(memcache, dbUsers, last.call.uids)
        IN  /\ r.users = last.data.users
            /\ r.missUids = last.call.uids \ DOMAIN last.data.users
            /\ (DOMAIN last.data.users = last.call.uids => r.missUids = {})

\* a first call read two users from the store, found all it asked for, and a
\* second call now is served from the cache alone
C4_Witness ==
    /\ last.call.op = "getUsers"
    /\ Cardinality(last.call.missUids) >= 2
    /\ DOMAIN last.data.users = last.call.uids
    /\ getUsers(memcache, dbUsers, last.call.uids).missUids = {}

\* C5: getUsers caches the ids it found and no others.  In every state and
\* for every S: an id of S in neither cache nor store is not in the result
\* and has no cache entry afterwards; the cache entries afterwards are those
\* before plus one per id read from the store; a following getUsers(S) asks
\* the store for exactly the ids found nowhere, and finds nothing.
C5_CachesOnlyFound ==
    \A S \in SUBSET Uids :
        LET r == getUsers(memcache, dbUsers, S)
            nowhere == {i \in S : i \notin DOMAIN dbUsers
                                  /\ ~Has(memcache, getUserCacheKey(i))}
            again == getUsers(r.mc, dbUsers, S)
        IN  /\ DOMAIN r.users = S \ nowhere
            /\ \A i \in nowhere : ~Has(r.mc, getUserCacheKey(i))
            /\ DOMAIN r.mc = DOMAIN memcache \cup
                   {getUserCacheKey(i) : i \in r.missUids \cap DOMAIN dbUsers}
            /\ again.missUids = nowhere
            /\ again.users = r.users
            /\ again.mc = r.mc

\* the scenario: the store holds users 1, 2, 3 and not 4, none of them was
\* cached, and getUsers({1, 2, 4}) returned entries for 1 and 2
C5_Witness ==
    /\ last.call.op = "getUsers"
    /\ last.call.uids = {1, 2, 4}
    /\ last.call.missUids = {1, 2, 4}
    /\ {1, 2, 3} \subseteq DOMAIN dbUsers
    /\ 4 \notin DOMAIN dbUsers
    /\ DOMAIN last.data.users = {1, 2}
    /\ DOMAIN memcache = {getUserCacheKey(1), getUserCacheKey(2)}


(***************************************************************************)
(* Aggregation and bans                                                    *)
(***************************************************************************)
PageOps == {"getIndex", "getPostsID", "getPosts", "getAccountName"}

\* C2: makePosts returns no post whose author has del_flg = 1 in the store:
\* once a ban has completed (its goroutines too), no page that aggregates
\* posts shows a post of the banned user.
C2_NoPostOfBannedAuthor ==
    (last.call.op \in PageOps /\ goBan = {}) =>
        \A i \in 1..Len(last.data.posts) :
            LET author == last.data.posts[i].UserID
            IN  author \in DOMAIN dbUsers => dbUsers[author].DelFlg = 0

\* C11: a page built with allComments = false shows, for a post with more
\* than three comments, three of them, none older than a comment it leaves
\* out, and counts all of them; a page built with allComments = true shows
\* them all.
C11_KeepsMostRecent ==
    last.call.op \in PageOps =>
        \A i \in 1..Len(last.data.posts) :
            LET p == last.data.posts[i]
                all == getComments(memcache, dbComments, p.ID).comments
                n == Len(all)
                shown == {p.Comments[k].ID : k \in 1..Len(p.Comments)}
            IN  /\ p.CommentCount = n
                /\ shown \subseteq {all[k].ID : k \in 1..n}
                /\ Len(p.Comments) =
                       IF last.call.op = "getPostsID" \/ n <= CommentsShown
                       THEN n ELSE CommentsShown
                /\ \A k \in 1..Len(p.Comments), d \in 1..n :
                       all[d].ID \notin shown =>
                           all[d].CreatedAt <= p.Comments[k].CreatedAt

C7_AppendOnMiss ==
    (last.call.op = "appendComment" /\ ~last.call.cached) =>
        LET key == getCommentsCacheKey(last.call.pid)
            r == getComments(memcache, dbComments, last.call.pid)
        IN  /\ ~last.call.err
            /\ \E c \in dbComments :
                   c.ID = last.call.cid /\ c.PostID = last.call.pid
            /\ ~Has(memcache, key)
            /\ r.queried
            /\ Has(r.mc, key)
            /\ Unmarshal(r.mc[key]) = r.comments
            /\ \E i \in 1..Len(r.comments) : r.comments[i].ID = last.call.cid

\* a comment was appended to a post that had no cache entry
C7_Witness ==
    /\ last.call.op = "appendComment"
    /\ ~last.call.cached
    /\ ~Has(memcache, getCommentsCacheKey(last.call.pid))
    /\ \E c \in dbComments : c.ID = last.call.cid

(***************************************************************************)
(* PostIndexCache: getRecent (getIndexPosts), invalidate (Delete)          *)
(***************************************************************************)
\* the request that ran last deleted the indexPosts key
Invalidated ==
    \/ last.call.op = "postIndex" /\ last.call.inserted /\ last.call.moved
    \/ last.call.op = "postAdminBanned" /\ last.call.banned

\* C8: with the blob cached, getIndexPosts returns it and asks the store for
\* nothing; right after the key was deleted, getIndexPosts asks the store
\* once and caches what it returns; a further getIndexPosts asks for nothing.
C8_InvalidateThenRebuild ==
    LET key == getIndexPostsCacheKey
        r == getIndexPosts(memcache, dbPosts, dbUsers)
        again == getIndexPosts(r.mc, dbPosts, dbUsers)
    IN  /\ Has(memcache, key) =>
               /\ ~r.queried
               /\ r.posts = Unmarshal(memcache[key])
               /\ r.mc = memcache
        /\ Invalidated =>
               /\ ~Has(memcache, key)
               /\ r.queried
               /\ r.posts = SelectIndexPosts(dbPosts, dbUsers)
               /\ Has(r.mc, key)
               /\ Unmarshal(r.mc[key]) = r.posts
        /\ ~again.queried
        /\ again.posts = r.posts
        /\ last.call.op = "getIndex" =>
               /\ last.call.queried = ~last.call.cached
               /\ Has(memcache, key)
               /\ Unmarshal(memcache[key]) = last.data.results

\* a post was created while the blob was cached, and the key is gone
C8_Witness ==
    /\ last.call.op = "postIndex"
    /\ last.call.inserted
    /\ last.call.moved
    /\ last.call.hadIndex
    /\ ~Has(memcache, getIndexPostsCacheKey)

\* C9: a post creation whose INSERT succeeded, and an admin ban, leave no
\* indexPosts key behind on any path out of the handler, so getIndexPosts run
\* next returns the new post when it is among the most recent visible posts.
C9_PostCreationInvalidates ==
    /\ ((last.call.op = "postIndex" /\ last.call.inserted)
           \/ (last.call.op = "postAdminBanned" /\ last.call.banned))
        => ~Has(memcache, getIndexPostsCacheKey)
    /\ (last.call.op = "postIndex" /\ last.call.inserted) =>
        LET r == getIndexPosts(memcache, dbPosts, dbUsers)
            recent == SelectIndexPosts(dbPosts, dbUsers)
        IN  (\E i \in 1..Len(recent) : recent[i].ID = last.call.pid)
                => \E i \in 1..Len(r.posts) : r.posts[i].ID = last.call.pid

\* C10: between requests the indexPosts entry is absent or is the list the
\* store's query for the most recent posts of non-deleted users returns.
C10_IndexMatchesStore ==
    Has(memcache, getIndexPostsCacheKey) =>
        Unmarshal(memcache[getIndexPostsCacheKey]) = SelectIndexPosts(dbPosts, dbUsers)

\* C20: makePosts returns at most postsPerPage posts, in the order of its
\* candidates; it fetched comments and users for the candidates up to the
\* one that filled the page and for none after it (for all of them when the
\* page was not filled); a fetched candidate it left out has a banned
\* author; a candidate it did not fetch got no comment entry.
C20_PageSize ==
    last.call.op = "makePosts" =>
        LET cand == last.call.results
            got == last.data.posts
            seen == last.call.fetched
            Pos(id) == CHOOSE i \in 1..Len(cand) : cand[i] = id
        IN  /\ Len(got) <= postsPerPage
            /\ \A i \in 1..Len(got) : \E j \in 1..Len(cand) : cand[j] = got[i].ID
            /\ \A i, j \in 1..Len(got) : i < j => Pos(got[i].ID) < Pos(got[j].ID)
            /\ seen = SubSeq(cand, 1, IF Len(got) = postsPerPage
                                      THEN Pos(got[Len(got)].ID)
                                      ELSE Len(cand))
            /\ \A i \in 1..Len(seen) :
                   (\A j \in 1..Len(got) : got[j].ID # seen[i]) =>
                       \E p \in dbPosts :
                           /\ p.ID = seen[i]
                           /\ Unmarshal(memcache[getUserCacheKey(p.UserID)]).DelFlg = 1
            /\ \A i \in (Len(seen) + 1)..Len(cand) :
                   Has(memcache, getCommentsCacheKey(cand[i]))
                       => i \in last.call.had

\* makePosts was given three candidates, filled the page with the first two
\* and left the third without a comment entry
C20_Witness ==
    /\ last.call.op = "makePosts"
    /\ Len(last.call.results) = postsPerPage + 1
    /\ Len(last.data.posts) = postsPerPage
    /\ Len(last.call.fetched) = postsPerPage
    /\ ~Has(memcache, getCommentsCacheKey(last.call.results[postsPerPage + 1]))

C16_OneMutexAtATime ==
    \A p \in Procs :
        /\ Cardinality(threads[p].held) <= 1
        /\ In(p, "lock") => threads[p].held = {}

\* a GET / that went through getIndexPosts (postMtx) and getComments
\* (commentMtx) holds userMtx in makePosts' getUsers, while another request
\* holds postMtx
C16_Witness ==
    \E p \in Procs :
        /\ threads[p].op = "getIndex"
        /\ Len(threads[p].loc.stack) = 3
        /\ Top(p).fn = "getUsers"
        /\ threads[p].held = {"userMtx"}
        /\ \E q \in Procs \ {p} : threads[q].held = {"postMtx"}

\* C17: a thread that is about to write a cache key holds the mutex of that
\* key.
C17_WritesUnderMutex ==
    \A p \in Procs : In(p, "write") => Ins(p).m \in threads[p].held

(***************************************************************************)
(* Failures: the store, the transport to the backend, damaged entries      *)
(***************************************************************************)
\* the entry of the operation that ran last is damaged
LastEntryDamaged ==
    LET op == last.call.op
    IN  CASE op = "getUsers" ->
                 \E i \in last.call.uids :
                     /\ Has(memcache, getUserCacheKey(i))
                     /\ ~Valid(memcache[getUserCacheKey(i)])
          [] op = "banUserOnCache" ->
                 /\ Has(memcache, getUserCacheKey(last.call.uid))
                 /\ ~Valid(memcache[getUserCacheKey(last.call.uid)])
          [] op = "getIndexPosts" ->
                 /\ Has(memcache, getIndexPostsCacheKey)
                 /\ ~Valid(memcache[getIndexPostsCacheKey])
          [] op \in {"getComments", "appendComment"} ->
                 /\ Has(memcache, getCommentsCacheKey(last.call.pid))
                 /\ ~Valid(memcache[getCommentsCacheKey(last.call.pid)])
          [] OTHER -> FALSE

\* C12: a cache operation whose store query or insert failed returned an
\* error to its caller and no data: the miss query of getUsers, the rebuild
\* query of getIndexPosts and getComments, the INSERT of appendComment and
\* appendUser.
C12_StoreFailureReturned ==
    /\ (last.call.op = "getUsers" /\ ~last.call.selOk /\ last.call.missUids # {})
           => last.call.err
    /\ (last.call.op = "getIndexPosts" /\ ~last.call.selOk /\ last.call.queried)
           => (last.call.err /\ last.data.posts = << >>)
    /\ (last.call.op = "getComments" /\ ~last.call.selOk /\ last.call.queried)
           => (last.call.err /\ last.data.comments = << >>)
    /\ (last.call.op \in {"appendComment", "appendUser"} /\ ~last.call.execOk)
           => (last.call.err /\ ~last.call.inserted)

\* C13: in every state, a getUsers, getIndexPosts or getComments whose cache
\* read fails on the transport asks the store, returns what the store holds
\* and returns no error, whatever the backend holds (a damaged entry too).
C13_ReadFailureIsMiss ==
    /\ \A S \in SUBSET Uids, setOk \in BOOLEAN :
           LET r == getUsersIO(memcache, dbUsers, S, FALSE, TRUE, setOk)
           IN  /\ ~r.err /\ ~r.panic
               /\ r.missUids = S
               /\ r.users = [i \in S \cap DOMAIN dbUsers |-> dbUsers[i]]
    /\ \A setOk \in BOOLEAN :
           LET r == getIndexPostsIO(memcache, dbPosts, dbUsers, FALSE, TRUE, setOk)
           IN  /\ ~r.err /\ ~r.panic
               /\ r.queried
               /\ r.posts = SelectIndexPosts(dbPosts, dbUsers)
    /\ \A pid \in Pids, setOk \in BOOLEAN :
           LET r == getCommentsIO(memcache, dbComments, pid, FALSE, TRUE, setOk)
           IN  /\ ~r.err /\ ~r.panic
               /\ r.queried
               /\ r.comments = SelectComments(dbComments, pid)
    /\ (/\ last.call.op \in {"getUsers", "getIndexPosts", "getComments"}
        /\ ~last.call.getOk /\ last.call.selOk)
           => (~last.call.err /\ ~last.call.panic)

\* getComments(1) could not reach the backend, which holds a list for post
\* 1 that lacks a comment, and returned the rows of the store
C13_Witness ==
    /\ last.call.op = "getComments"
    /\ last.call.pid = 1
    /\ ~last.call.getOk
    /\ last.call.selOk
    /\ ~last.call.err
    /\ Has(memcache, getCommentsCacheKey(1))
    /\ Valid(memcache[getCommentsCacheKey(1)])
    /\ Unmarshal(memcache[getCommentsCacheKey(1)]) # last.data.comments
    /\ last.data.comments = SelectComments(dbComments, 1)

\* C14: in every state, a getUsers(S) whose GetMulti fails takes every id of
\* S for a miss and asks the store for all of S; when the store answers, the
\* map is the rows the store holds for S, one Set is issued per row, and the
\* backend, when it takes the Sets, holds each row under its key and keeps
\* every other entry.
C14_MultiGetErrorAllMiss ==
    /\ \A S \in SUBSET Uids, selOk \in BOOLEAN, setOk \in BOOLEAN :
           LET r == getUsersIO(memcache, dbUsers, S, FALSE, selOk, setOk)
               rows == S \cap DOMAIN dbUsers
               keys == {getUserCacheKey(i) : i \in rows}
           IN  /\ r.missUids = S
               /\ ~r.panic
               /\ \A k \in DOMAIN memcache \ keys :
                      Has(r.mc, k) /\ r.mc[k] = memcache[k]
               /\ selOk =>
                      /\ r.users = [i \in rows |-> dbUsers[i]]
                      /\ r.sets = keys
                      /\ setOk => /\ DOMAIN r.mc = DOMAIN memcache \cup keys
                                  /\ \A i \in rows :
                                         r.mc[getUserCacheKey(i)] = Marshal(dbUsers[i])
    /\ (last.call.op = "getUsers" /\ ~last.call.getOk) =>
           /\ last.call.missUids = last.call.uids
           /\ last.call.selOk =>
                  last.data.users =
                      [i \in last.call.uids \cap DOMAIN dbUsers |-> dbUsers[i]]

\* getUsers({1, 2, MaxUid}) could not reach the backend, which holds an
\* entry for user 1, asked the store for all three and returned its rows
C14_Witness ==
    /\ last.call.op = "getUsers"
    /\ last.call.uids = {1, 2, MaxUid}
    /\ ~last.call.getOk
    /\ last.call.selOk
    /\ last.call.missUids = {1, 2, MaxUid}
    /\ Has(memcache, getUserCacheKey(1))
    /\ {1, 2} \subseteq DOMAIN last.data.users

\* C18: banUserOnCache(id) leaves the store as it is; without an entry
\* user:<id> it leaves the backend as it is; with one it rewrites that entry
\* with DelFlg = 1 and its other fields as they were, and leaves every other
\* entry (other users, the index blob, the comment lists) as it is.
C18_SoftDeleteFrame ==
    [][last'.call.op = "banUserOnCache" =>
          LET key == getUserCacheKey(last'.call.uid)
          IN  /\ dbUsers' = dbUsers
              /\ dbPosts' = dbPosts
              /\ dbComments' = dbComments
              /\ IF ~Has(memcache, key)
                 THEN memcache' = memcache
                 ELSE /\ DOMAIN memcache' = DOMAIN memcache
                      /\ \A k \in DOMAIN memcache \ {key} :
                             memcache'[k] = memcache[k]
                      /\ Unmarshal(memcache'[key]).DelFlg = 1
                      /\ \A f \in {"ID", "AccountName", "Passhash",
                                    "Authority", "CreatedAt"} :
                             Unmarshal(memcache'[key])[f] =
                                 Unmarshal(memcache[key])[f]]_vars

\* banUserOnCache found the entry of a user and set its flag, beside an
\* index blob and a comment list; the store still shows the user unbanned
C18_Witness ==
    /\ last.call.op = "banUserOnCache"
    /\ last.call.cached
    /\ Unmarshal(memcache[getUserCacheKey(last.call.uid)]).DelFlg = 1
    /\ dbUsers[last.call.uid].DelFlg = 0
    /\ Has(memcache, getIndexPostsCacheKey)
    /\ Has(memcache, getCommentsCacheKey(1))

C21_AppendedIsListed ==
    (/\ last.call.op = "getComments"
     /\ ~last.call.err
     /\ ~last.call.panic) =>
        \A c \in dbComments :
            c.PostID = last.call.pid =>
                \E i \in 1..Len(last.data.comments) :
                    last.data.comments[i].ID = c.ID

\* C22: the indexPosts entry lists no post of a user whose ban has finished:
\* neither of a user of the ban request that finished last, nor of any user
\* the store flags as deleted while no ban request naming that user is in
\* progress.
C22_NoBannedAuthorInIndex ==
    LET key == getIndexPostsCacheKey
        Clean(u) ==
            Has(memcache, key) =>
                \A i \in 1..Len(Unmarshal(memcache[key])) :
                    Unmarshal(memcache[key])[i].UserID # u
    IN  /\ last.call.op = "postAdminBanned" =>
               \A u \in last.call.uids : Clean(u)
        /\ \A u \in DOMAIN dbUsers :
               (/\ dbUsers[u].DelFlg = 1
                /\ \A p \in Procs : ~(/\ threads[p].op = "postAdminBanned"
                                       /\ u \in threads[p].loc.uids)) =>
                   Clean(u)

\* a ban that ran while another request was in progress has deleted an
\* entry that listed a post of the banned user, and a later getIndexPosts
\* has cached the list again
C22_Witness ==
    /\ last.call.op = "postAdminBanned"
    /\ last.call.stale
    /\ last.call.overlapped
    /\ Has(memcache, getIndexPostsCacheKey)

\* C23: right after /initialize, getComments of every post of the store
\* returns the comments the store holds for it, in the store's order, and
\* every user row of the store has an entry equal to the row.
C23_InitializeRebuilds ==
    last.call.op = "initialize" =>
        /\ \A p \in dbPosts :
               LET got == getComments(memcache, dbComments, p.ID).comments
                   st == SelectComments(dbComments, p.ID)
               IN  /\ Len(got) = Len(st)
                   /\ \A i \in 1..Len(got) : got[i].ID = st[i].ID
        /\ \A i \in DOMAIN dbUsers :
               /\ Has(memcache, getUserCacheKey(i))
               /\ Unmarshal(memcache[getUserCacheKey(i)]) = dbUsers[i]

\* C24: a call of appendComment or getComments for post p leaves the users
\* and posts of the store, the store's comments of every other post, and
\* every cache entry but comments:<p> as they were: no key but comments:<p>
\* appears, disappears or changes.
C24_CommentOpsFrame ==
    [][last'.call.op \in {"appendComment", "getComments"} =>
          /\ dbUsers' = dbUsers
          /\ dbPosts' = dbPosts
          /\ {c \in dbComments' : c.PostID # last'.call.pid}
                 = {c \in dbComments : c.PostID # last'.call.pid}
          /\ \A k \in (DOMAIN memcache \cup DOMAIN memcache')
                        \ {getCommentsCacheKey(last'.call.pid)} :
                 /\ k \in DOMAIN memcache
                 /\ k \in DOMAIN memcache'
                 /\ memcache'[k] = memcache[k]]_vars

\* appendComment has inserted a comment of post 1 and rewritten comments:1
\* while the cache held the recent-posts blob, a user entry and the entry
\* of post 2
C24_Witness ==
    /\ last.call.op = "appendComment"
    /\ last.call.inserted
    /\ last.call.cached
    /\ last.call.pid = 1
    /\ \E i \in 1..Len(Unmarshal(memcache[getCommentsCacheKey(1)])) :
           Unmarshal(memcache[getCommentsCacheKey(1)])[i].ID = last.call.cid
    /\ Has(memcache, getIndexPostsCacheKey)
    /\ Has(memcache, getCommentsCacheKey(2))
    /\ \E u \in Uids : Has(memcache, getUserCacheKey(u))

\* C25: extractImg returns nil only if it wrote a file for every row of
\* posts.
C25_NilOnlyIfAllWritten ==
    (last.call.op = "extractImg" /\ ~last.data.err) =>
        \A row \in dbPosts : \E f \in last.data.files : f.Id = row.ID

====
